---- MODULE Spec2Model ----
(***************************************************************************)
(* TIGR (Tiny Instrument for Gathering Radiation): a model of the event    *)
(* capture pipeline, the flush controller and the MMC/SD block driver.     *)
(*                                                                         *)
(* Specifications:                                                         *)
(*   Spec        FR2355 build: main, the Port 2 capture ISR, save_reading, *)
(*               write_readings_to_sd and flush_buffer_to_sd; the result   *)
(*               of each mmc_write_sector call is an input.                *)
(*   SpecBoot    FR2355 sd_card_init with mmc_init run command by command  *)
(*               against a card whose answers are inputs.                  *)
(*   SpecWrite   flush_buffer_to_sd with mmc_write_block run exchange by   *)
(*               exchange against a card whose answers are inputs.         *)
(*   SpecSDCard  SDCardTIGR prototype: ISRP1 and its save_reading.         *)
(*   SpecClock   FR2355 software clock: Timer_B0_ISR around midnight.      *)
(*   SpecDay     FR2355 software clock over one day, a minute a step.      *)
(*   SpecTick    FR2355 capture handler with save_reading run statement    *)
(*               by statement, and the timer interrupt.                    *)
(*   SpecScenario  FR2355 build from power-up with edges on the band       *)
(*               lines in turn.                                            *)
(*   SpecCsv     write_readings_to_sd on a full event buffer whose first   *)
(*               record is drawn from the corner values of every field.    *)
(*   SpecFill    write_readings_to_sd on a full event buffer of records    *)
(*               with long fields, sd_buffer empty or holding the header.  *)
(*   SpecOrder   FR2355 capture handler through two calls of               *)
(*               write_readings_to_sd, the card initialised.               *)
(*   SpecBands   FR2355 capture handler with edges on all four lines.      *)
(*   SpecTest    test_sd.c: the reset command, a block written and read    *)
(*               back, against a card that keeps the blocks it accepts.    *)
(*   SpecRef     the clock of Reference Code/RTC.c, a tick a step.         *)
(*   SpecPort    SpecOrder with edges on a line of Port 2 that is no band   *)
(*               line.                                                     *)
(*   SpecSelect  the routines of the block driver called in any order,     *)
(*               with the chip-select line followed through each path.     *)
(*   SpecLive    SpecBoot, Spec and SpecWrite with the processor's         *)
(*               progress as fairness.                                     *)
(***************************************************************************)
EXTENDS Integers, Sequences, FiniteSets, TLC

VARIABLES
    mainpc,          \* position of the foreground (main)
    isrpc,           \* position of the Port 2 ISR ("idle" when not running)
    GIE,             \* global interrupt enable
    P2IFG,           \* latched edge flags of Port 2: the set of bit numbers set
    rtc,             \* clock fields (BCD), read by save_reading
    readings,        \* EnergyReading readings[MAX_READINGS]
    reading_count,
    muon_count,
    sd_buffer,       \* unsigned char sd_buffer[SD_BUFFER_SIZE]
    buffer_position,
    current_sector,
    sd_initialized,
    \* history of the run
    isr_count,       \* capture handler invocations so far
    captured,        \* captured[i]: the invocation whose record sits in readings[i]
    oob_store,       \* a store into readings[] used an index past its end
    oob_buf,         \* a store into sd_buffer[] used an index past its end
    wrs_calls,       \* calls of write_readings_to_sd so far
    wrs_i,           \* the loop counter i of write_readings_to_sd
    flush_calls,     \* calls of flush_buffer_to_sd so far
    last_flush,      \* what the last flush_buffer_to_sd call found and left behind
    write_log,       \* one entry per mmc_write_sector call
    last_isr,        \* what the last capture handler invocation saw and did
    variety,         \* capture inputs so far that were not the default ones
    \* sd_card_init / mmc_init / mmc_write_block, run step by step
    retry_count,
    drvpc,           \* position inside the driver routine being run
    drv_i,           \* the loop counter i of the driver routine
    response,        \* the local variable response
    drv_ret,         \* return value of the last driver routine
    CS,              \* chip select line: "high" or "low"
    boot_log,        \* what sd_card_init has seen and done
    bus_log,         \* what has been sent on the bus
    \* the software clock
    ticks,           \* Timer_B0_ISR invocations so far
    rtc0,            \* the clock fields at the start of the run
    \* the card test program (test_sd.c) and the card it talks to
    test_sector,     \* the sector the test writes and reads back
    test_buffer,     \* unsigned char test_buffer[512]
    read_buffer,     \* unsigned char read_buffer[512]
    medium,          \* the blocks the card holds, by byte address
    trace            \* one entry per driver call: what went over the bus

capVars  == <<mainpc, isrpc, GIE, P2IFG, rtc, readings, reading_count, muon_count,
              isr_count, captured, oob_store, wrs_calls, last_isr, variety>>
sdVars   == <<sd_buffer, buffer_position, current_sector, sd_initialized, oob_buf,
              wrs_i, flush_calls, last_flush, write_log>>
drvVars  == <<retry_count, drvpc, drv_i, response, drv_ret, CS, boot_log, bus_log>>
clkVars  == <<ticks, rtc0>>
testVars == <<test_sector, test_buffer, read_buffer, medium, trace>>
vars     == <<capVars, sdVars, drvVars, clkVars, testVars>>

----------------------------------------------------------------------------
(* Program constants *)

MAX_READINGS   == 16
SD_BUFFER_SIZE == 512
FLUSH_MARGIN   == 64

MMC_SUCCESS          == 0
MMC_BLOCK_SET_ERROR  == 1
MMC_RESPONSE_ERROR   == 2
MMC_DATA_TOKEN_ERROR == 3
MMC_INIT_ERROR       == 4
MMC_WRITE_ERROR      == 17
MMC_TIMEOUT_ERROR    == 255

MMC_BLOCK_SIZE       == 512
MMC_INIT_TIMEOUT     == 1000
MMC_RESPONSE_TIMEOUT == 64
MMC_BUSY_TIMEOUT     == 1000
MMC_R1_RESPONSE      == 0
MMC_R1_IDLE_STATE    == 1
IDLE_FILL            == 255
MMC_TOKEN_TIMEOUT    == 1000
MMC_GO_IDLE_STATE          == 64
MMC_SEND_OP_COND           == 65
MMC_READ_CSD               == 73
MMC_SET_BLOCKLEN           == 80
MMC_READ_SINGLE_BLOCK      == 81
MMC_WRITE_BLOCK            == 88
MMC_START_DATA_BLOCK_TOKEN == 254
PING_WAIT_LIMIT      == 30
PING_ABSENT_LIMIT    == 10
INIT_RETRIES         == 3

(* Bounds of the model *)

MaxCaptures == 18    \* capture handler invocations in one run
MaxVariety == 0      \* captures whose band line or temperature is not the default

----------------------------------------------------------------------------
(* tigr_utlis.c: number formatting.  Characters are their ASCII codes. *)

Chr0    == 48
ChrMinus == 45
ChrComma == 44
ChrDash  == 45
ChrColon == 58
ChrNL    == 10

RECURSIVE RevDigits(_)
RevDigits(num) ==
    IF num > 0 THEN <<Chr0 + (num % 10)>> \o RevDigits(num \div 10) ELSE <<>>

Reverse(s) == [j \in 1..Len(s) |-> s[Len(s) + 1 - j]]

uint_to_string(num) ==
    IF num = 0 THEN <<Chr0>> ELSE Reverse(RevDigits(num))

\* num = -num in a 16-bit int: -32768 stays -32768
Neg16(num) == IF num = -32768 THEN -32768 ELSE -num

int_to_string(num) ==
    LET is_negative == num < 0
        n           == IF is_negative THEN Neg16(num) ELSE num
    IN  IF n = 0 THEN <<Chr0>>
        ELSE Reverse(RevDigits(n) \o (IF is_negative THEN <<ChrMinus>> ELSE <<>>))

bcd_to_string(bcd) == <<Chr0 + ((bcd \div 16) % 16), Chr0 + (bcd % 16)>>

hex_to_string_4(hex) ==
    <<Chr0 + ((hex \div 4096) % 16), Chr0 + ((hex \div 256) % 16),
      Chr0 + ((hex \div 16) % 16),   Chr0 + (hex % 16)>>

\* "Muon#,Band,Date,Time,TempC\n"
HeaderFR2355 ==
    <<77,117,111,110,35,44, 66,97,110,100,44, 68,97,116,101,44,
      84,105,109,101,44, 84,101,109,112,67,10>>

----------------------------------------------------------------------------
(* The serialization buffer and the storage cursor, as the routines of     *)
(* sd_utils.c pass them along: buf and pos are sd_buffer and               *)
(* buffer_position, sector is current_sector, sdinit is sd_initialized,    *)
(* writes lists the mmc_write_sector calls made (sector, block, result),   *)
(* oob tells whether a store went past the end of sd_buffer.               *)

\* sd_buffer is held without its trailing zero bytes: byte x of the array is
\* BufAt(buf, x), and the array cleared by memset is the empty sequence
BufIndex == 0..(SD_BUFFER_SIZE - 1)
Zeros    == <<>>
BufAt(buf, x) == IF x < Len(buf) THEN buf[x + 1] ELSE 0

RECURSIVE Trim(_)
Trim(s) ==
    IF Len(s) > 0 /\ s[Len(s)] = 0 THEN Trim(SubSeq(s, 1, Len(s) - 1)) ELSE s

SdState(buf, pos, sector, sdinit) ==
    [buf |-> buf, pos |-> pos, sector |-> sector, sdinit |-> sdinit,
     writes |-> <<>>, oob |-> FALSE]

\* the array buf with bytes stored at index pos, pos + 1, ...
StoreAt(buf, pos, bytes) ==
    LET n   == Len(bytes)
        end == IF pos + n > SD_BUFFER_SIZE THEN SD_BUFFER_SIZE ELSE pos + n
        len == IF Len(buf) > end THEN Len(buf) ELSE end
    IN  IF pos = Len(buf) /\ pos + n <= SD_BUFFER_SIZE
        THEN Trim(buf \o bytes)
        ELSE Trim([k \in 1..len |->
                     IF k - 1 >= pos /\ k - 1 < pos + n
                     THEN bytes[k - pos] ELSE BufAt(buf, k - 1)])

\* for each b of bytes: sd_buffer[buffer_position++] = b
PutBytes(st, bytes) ==
    [st EXCEPT
       !.buf = StoreAt(st.buf, st.pos, bytes),
       !.pos = st.pos + Len(bytes),
       !.oob = st.oob \/ (st.pos + Len(bytes) > SD_BUFFER_SIZE)]

\* the array buf with every byte from index pos on set to zero
ZeroFrom(buf, pos) ==
    Trim(SubSeq(buf, 1, IF pos < Len(buf) THEN pos ELSE Len(buf)))

\* (mutant) the line is left without its closing newline
csv_line_unterminated(r) ==
       uint_to_string(r.muon_number) \o <<ChrComma>>
    \o uint_to_string(r.energy_band) \o <<ChrComma>>
    \o hex_to_string_4(r.year) \o <<ChrDash>>
    \o bcd_to_string(r.month) \o <<ChrDash>>
    \o bcd_to_string(r.day) \o <<ChrComma>>
    \o bcd_to_string(r.hour) \o <<ChrColon>>
    \o bcd_to_string(r.minute) \o <<ChrColon>>
    \o bcd_to_string(r.second % 256) \o <<ChrComma>>
    \o int_to_string(r.temperature)

\* the CSV line write_readings_to_sd builds for one reading
CsvLine(r) ==
       uint_to_string(r.muon_number) \o <<ChrComma>>
    \o uint_to_string(r.energy_band) \o <<ChrComma>>
    \o hex_to_string_4(r.year) \o <<ChrDash>>
    \o bcd_to_string(r.month) \o <<ChrDash>>
    \o bcd_to_string(r.day) \o <<ChrComma>>
    \o bcd_to_string(r.hour) \o <<ChrColon>>
    \o bcd_to_string(r.minute) \o <<ChrColon>>
    \o bcd_to_string(r.second % 256) \o <<ChrComma>>
    \o int_to_string(r.temperature) \o <<ChrNL>>

\* (mutant) the cursor advances whatever mmc_write_sector returns
flush_advance_always(st, ret) ==
    IF st.pos = 0 THEN st
    ELSE [st EXCEPT
            !.writes = IF st.sdinit # 0
                       THEN Append(st.writes, [sector |-> st.sector, ret |-> ret,
                                               block |-> ZeroFrom(st.buf, st.pos)])
                       ELSE st.writes,
            !.sector = IF st.sdinit # 0 THEN st.sector + 1 ELSE st.sector,
            !.pos    = 0,
            !.buf    = Zeros]

\* (mutant) a failed write moves the cursor back by one sector
flush_steps_back_on_failure(st, ret) ==
    IF st.pos = 0 THEN st
    ELSE [st EXCEPT
            !.writes = IF st.sdinit # 0
                       THEN Append(st.writes, [sector |-> st.sector, ret |-> ret,
                                               block |-> ZeroFrom(st.buf, st.pos)])
                       ELSE st.writes,
            !.sector = IF st.sdinit = 0 THEN st.sector
                       ELSE IF ret = MMC_SUCCESS THEN st.sector + 1
                       ELSE IF st.sector > 0 THEN st.sector - 1 ELSE st.sector,
            !.pos    = 0,
            !.buf    = Zeros]

\* (mutant) a failed write marks the card as not initialised
flush_fail_drops_session(st, ret) ==
    IF st.pos = 0 THEN st
    ELSE [st EXCEPT
            !.writes = IF st.sdinit # 0
                       THEN Append(st.writes, [sector |-> st.sector, ret |-> ret,
                                               block |-> ZeroFrom(st.buf, st.pos)])
                       ELSE st.writes,
            !.sector = IF st.sdinit # 0 /\ ret = MMC_SUCCESS
                       THEN st.sector + 1 ELSE st.sector,
            !.sdinit = IF st.sdinit # 0 /\ ret # MMC_SUCCESS THEN 0 ELSE st.sdinit,
            !.pos    = 0,
            !.buf    = Zeros]

\* (mutant) the buffer is reset only when the card is initialised
flush_reset_only_if_init(st, ret) ==
    IF st.pos = 0 THEN st
    ELSE IF st.sdinit = 0 THEN [st EXCEPT !.pos = SD_BUFFER_SIZE]
    ELSE [st EXCEPT
            !.writes = Append(st.writes, [sector |-> st.sector, ret |-> ret,
                                          block |-> ZeroFrom(st.buf, st.pos)]),
            !.sector = IF ret = MMC_SUCCESS THEN st.sector + 1 ELSE st.sector,
            !.pos    = 0,
            !.buf    = Zeros]

\* (mutant) a failed write is tried a second time
flush_retry_on_failure(st, ret) ==
    IF st.pos = 0 THEN st
    ELSE LET w == [sector |-> st.sector, ret |-> ret,
                   block |-> ZeroFrom(st.buf, st.pos)]
         IN  [st EXCEPT
                !.writes = IF st.sdinit = 0 THEN st.writes
                           ELSE IF ret = MMC_SUCCESS THEN Append(st.writes, w)
                           ELSE Append(Append(st.writes, w), w),
                !.sector = IF st.sdinit # 0 /\ ret = MMC_SUCCESS
                           THEN st.sector + 1 ELSE st.sector,
                !.pos    = 0,
                !.buf    = Zeros]

\* flush_buffer_to_sd; ret is what mmc_write_sector returns if it is called
flush_buffer_to_sd(st, ret) ==
    IF st.pos = 0 THEN st
    ELSE
      LET padded == ZeroFrom(st.buf, st.pos)
          called == st.sdinit # 0
      IN  [st EXCEPT
            !.writes = IF called
                       THEN Append(st.writes, [sector |-> st.sector, ret |-> ret,
                                               block |-> padded])
                       ELSE st.writes,
            !.sector = IF called /\ ret = MMC_SUCCESS THEN st.sector + 1 ELSE st.sector,
            !.pos    = 0,
            !.buf    = Zeros]

\* what a flush_buffer_to_sd call found (st) and left behind (r)
FlushRecord(st, r) ==
    [sdinit  |-> st.sdinit,
     pos_in  |-> st.pos,
     before  |-> st.sector,
     after   |-> r.sector,
     ncalls  |-> Len(r.writes) - Len(st.writes),
     ret     |-> IF Len(r.writes) > Len(st.writes)
                 THEN r.writes[Len(r.writes)].ret ELSE -1,
     pos_out |-> r.pos,
     cleared |-> r.buf = Zeros]

NoFlush ==
    [sdinit |-> 0, pos_in |-> 0, before |-> 0, after |-> 0, ncalls |-> 0,
     ret |-> -1, pos_out |-> 0, cleared |-> TRUE]

\* (mutant) the loop does not step past the reading whose line made it flush
RECURSIVE write_loop_repeats_after_flush(_, _, _, _)
write_loop_repeats_after_flush(i, n, rd, st) ==
    IF i < n
    THEN CHOOSE r \in
           {IF st1.pos >= SD_BUFFER_SIZE - FLUSH_MARGIN
            THEN [i |-> i, st |-> st1, inloop |-> TRUE]
            ELSE write_loop_repeats_after_flush(i + 1, n, rd, st1) :
               st1 \in {PutBytes(st, CsvLine(rd[i]))}} : TRUE
    ELSE [i |-> i, st |-> st, inloop |-> FALSE]

\* the loop of write_readings_to_sd from reading i on, over rd[0..n-1], up to
\* its next call of flush_buffer_to_sd: the reading whose line fills the
\* buffer to SD_BUFFER_SIZE - FLUSH_MARGIN or more, or the end of the loop
RECURSIVE WriteLoop(_, _, _, _)
WriteLoop(i, n, rd, st) ==
    IF i < n
    THEN \* st1 ranges over a singleton, so that it is computed once
         CHOOSE r \in
           {IF st1.pos >= SD_BUFFER_SIZE - FLUSH_MARGIN
            THEN [i |-> i + 1, st |-> st1, inloop |-> TRUE]
            ELSE WriteLoop(i + 1, n, rd, st1) :
               st1 \in {PutBytes(st, CsvLine(rd[i]))}} : TRUE
    ELSE [i |-> i, st |-> st, inloop |-> FALSE]

----------------------------------------------------------------------------
(* The event buffer (FR2355 build: sd_utils.c, TIGR.c) *)

ReadingIndex == 0..(MAX_READINGS - 1)
Bands        == {1, 2, 3, 4}
BandBits     == {1, 2, 3, 4}          \* BIT1..BIT4 of Port 2
Temps        == {23, -5}          \* values read_temperature() returns
DefaultTemp  == CHOOSE t \in Temps : t > 0
DefaultBit   == CHOOSE b \in BandBits : b + 1 \notin BandBits
Wrap16(n)    == n % 65536

\* rtc_year .. rtc_second as msp_init sets them
RtcStart ==
    [year |-> 8229, month |-> 16, day |-> 20, hour |-> 18, minute |-> 0,
     second |-> 0, ms |-> 0]

ZeroReading ==
    [muon_number |-> 0, energy_band |-> 0, year |-> 0, month |-> 0, day |-> 0,
     hour |-> 0, minute |-> 0, second |-> 0, temperature |-> 0]

\* the event buffer as save_reading sees it; ev is the handler invocation
\* that calls it, temp the value read_temperature() returns
EvBuf(rd, rc, cap, oob) == [rd |-> rd, rc |-> rc, cap |-> cap, oob |-> oob]

save_reading(eb, band, mc, clk, temp, ev) ==
    LET rec == [muon_number |-> mc, energy_band |-> band,
                year |-> clk.year, month |-> clk.month, day |-> clk.day,
                hour |-> clk.hour, minute |-> clk.minute, second |-> clk.second,
                temperature |-> temp]
    IN  IF eb.rc \in ReadingIndex
        THEN [eb EXCEPT !.rd[eb.rc] = rec, !.cap[eb.rc] = ev, !.rc = Wrap16(eb.rc + 1)]
        ELSE [eb EXCEPT !.oob = TRUE, !.rc = Wrap16(eb.rc + 1)]

\* (mutant) the test written with > instead of >=
ArrayFull_gt(rc) == rc > MAX_READINGS

\* if (reading_count >= MAX_READINGS) in ISRP2
ArrayFull(rc) == rc >= MAX_READINGS

\* (mutant) the chain tests BIT4 first
band_chain_ascending(ifg) ==
    IF 4 \in ifg THEN 1
    ELSE IF 3 \in ifg THEN 2
    ELSE IF 2 \in ifg THEN 3
    ELSE IF 1 \in ifg THEN 4
    ELSE 0

\* the if / else-if chain of ISRP2 over P2IFG: 0 when no branch is taken
BandOfFlagsFR2355(ifg) ==
    IF 1 \in ifg THEN 4
    ELSE IF 2 \in ifg THEN 3
    ELSE IF 3 \in ifg THEN 2
    ELSE IF 4 \in ifg THEN 1
    ELSE 0

\* results of mmc_write_block (tigr_mmc.c)
WriteRets == {MMC_SUCCESS, MMC_RESPONSE_ERROR, MMC_WRITE_ERROR, MMC_TIMEOUT_ERROR}

IsDigit(c) == c \in Chr0..(Chr0 + 9)

\* the decimal number whose digits begin at index k of b (acc: the digits
\* read so far)
RECURSIVE ReadUInt(_, _, _)
ReadUInt(b, k, acc) ==
    IF k <= Len(b) /\ IsDigit(b[k])
    THEN ReadUInt(b, k + 1, acc * 10 + (b[k] - Chr0))
    ELSE acc

\* the members of the set S of numbers in ascending order
Ascending(S) ==
    CHOOSE at \in
        {[j \in 1..Cardinality(S) |-> CHOOSE k \in S : below[k] = j - 1] :
            below \in {[k \in S |-> Cardinality({x \in S : x < k})]}} : TRUE

\* the sequence numbers at the head of the record lines of a block, in the
\* order of the lines (the header line begins with a letter)
NumbersIn(block) ==
    CHOOSE numbers \in
        {[j \in 1..Len(at) |-> ReadUInt(block, at[j], 0)] :
            at \in {Ascending(starts) :
                      starts \in {{k \in 1..Len(block) :
                                     /\ k = 1 \/ block[k - 1] = ChrNL
                                     /\ IsDigit(block[k])}}}} : TRUE

\* one entry of write_log for each mmc_write_sector call of a flush
LogEntries(writes) ==
    [k \in 1..Len(writes) |->
        [sector |-> writes[k].sector, ret |-> writes[k].ret,
         numbers |-> NumbersIn(writes[k].block)]]

\* hardware: a falling edge on P2.bit latches its flag
Edge(bit) ==
    /\ bit \notin P2IFG
    /\ bit = DefaultBit \/ variety < MaxVariety
    /\ P2IFG' = P2IFG \cup {bit}
    /\ variety' = IF bit = DefaultBit THEN variety ELSE variety + 1
    /\ UNCHANGED <<mainpc, isrpc, GIE, rtc, readings, reading_count, muon_count,
                   isr_count, captured, oob_store, wrs_calls, last_isr>>
    /\ UNCHANGED <<sdVars, drvVars, clkVars, testVars>>

\* (mutant) every line of Port 2 has its interrupt enabled
port_interrupt_on_every_line(ifg) == ifg # {}

\* msp_init sets P2IE for BIT1..BIT4 and for no other line: Port 2 requests
\* an interrupt while the flag of one of these lines is set
P2IE == BandBits
PortInterruptPending(ifg) == ifg \cap P2IE # {}

\* ISRP2 from its entry to the test of reading_count: the if / else-if chain
\* with save_reading, muon_count++, and the call of write_readings_to_sd
\* when the array is full
ISRP2_body(temp) ==
    /\ GIE /\ isrpc = "idle"
    /\ PortInterruptPending(P2IFG)
    /\ isr_count < MaxCaptures
    /\ temp = DefaultTemp \/ variety < MaxVariety
    /\ LET band == BandOfFlagsFR2355(P2IFG)
           ev   == isr_count + 1
           eb0  == EvBuf(readings, reading_count, captured, oob_store)
           eb1  == IF band # 0
                   THEN save_reading(eb0, band, muon_count, rtc, temp, ev)
                   ELSE eb0
           full == ArrayFull(eb1.rc)
       IN  /\ readings' = eb1.rd
           /\ captured' = eb1.cap
           /\ reading_count' = eb1.rc
           /\ oob_store' = eb1.oob
           /\ muon_count' = Wrap16(muon_count + 1)
           /\ wrs_calls' = IF full THEN wrs_calls + 1 ELSE wrs_calls
           /\ isrpc' = IF full THEN "wrs" ELSE "exit"
           /\ isr_count' = ev
           /\ last_isr' = [n |-> ev, flags |-> P2IFG, band |-> band,
                           count_in |-> reading_count, flushed |-> full]
    /\ variety' = IF temp = DefaultTemp THEN variety ELSE variety + 1
    /\ wrs_i' = 0
    /\ UNCHANGED <<mainpc, GIE, P2IFG, rtc>>
    /\ UNCHANGED <<sd_buffer, buffer_position, current_sector, sd_initialized,
                   oob_buf, flush_calls, last_flush, write_log>>
    /\ UNCHANGED <<drvVars, clkVars, testVars>>

\* write_readings_to_sd, from where it stands up to its next call of
\* flush_buffer_to_sd, or to its return (then reading_count = 0 in ISRP2)
Wrs ==
    /\ isrpc = "wrs"
    /\ \E run \in {WriteLoop(wrs_i, reading_count, readings,
                    SdState(sd_buffer, buffer_position, current_sector, sd_initialized))} :
       LET call == run.inloop \/ run.st.pos > 0
       IN  /\ sd_buffer' = run.st.buf
           /\ buffer_position' = run.st.pos
           /\ oob_buf' = (oob_buf \/ run.st.oob)
           /\ wrs_i' = run.i
           /\ isrpc' = IF run.inloop THEN "flush_in_loop"
                       ELSE IF call THEN "flush_last" ELSE "exit"
           /\ reading_count' = IF call THEN reading_count ELSE 0
    /\ UNCHANGED <<mainpc, GIE, P2IFG, rtc, readings, muon_count, isr_count,
                   captured, oob_store, wrs_calls, last_isr, variety>>
    /\ UNCHANGED <<current_sector, sd_initialized, flush_calls, last_flush, write_log>>
    /\ UNCHANGED <<drvVars, clkVars, testVars>>

\* a call of flush_buffer_to_sd from write_readings_to_sd
Flush(ret) ==
    /\ isrpc \in {"flush_in_loop", "flush_last"}
    /\ \E st0 \in {SdState(sd_buffer, buffer_position, current_sector, sd_initialized)} :
       \E st1 \in {flush_buffer_to_sd(st0, ret)} :
           /\ Len(st1.writes) > 0 \/ ret = MMC_SUCCESS
           /\ sd_buffer' = st1.buf
           /\ buffer_position' = st1.pos
           /\ current_sector' = st1.sector
           /\ sd_initialized' = st1.sdinit
           /\ \E log \in {LogEntries(st1.writes)} : write_log' = write_log \o log
           /\ flush_calls' = flush_calls + 1
           /\ last_flush' = FlushRecord(st0, st1)
    /\ isrpc' = IF isrpc = "flush_in_loop" THEN "wrs" ELSE "exit"
    /\ reading_count' = IF isrpc = "flush_in_loop" THEN reading_count ELSE 0
    /\ UNCHANGED <<mainpc, GIE, P2IFG, rtc, readings, muon_count, isr_count,
                   captured, oob_store, wrs_calls, last_isr, variety>>
    /\ UNCHANGED <<oob_buf, wrs_i>>
    /\ UNCHANGED <<drvVars, clkVars, testVars>>

\* P2IFG &= ~(BIT1 | BIT2 | BIT3 | BIT4); return from interrupt
ISRP2_exit ==
    /\ isrpc = "exit"
    /\ P2IFG' = P2IFG \ BandBits
    /\ isrpc' = "idle"
    /\ UNCHANGED <<mainpc, GIE, rtc, readings, reading_count, muon_count,
                   isr_count, captured, oob_store, wrs_calls, last_isr, variety>>
    /\ UNCHANGED <<sdVars, drvVars, clkVars, testVars>>

----------------------------------------------------------------------------
(* main of the FR2355 build *)

\* msp_init: clears the four flags, sets the clock, enables interrupts
MspInit ==
    /\ mainpc = "msp_init" /\ isrpc = "idle"
    /\ P2IFG' = P2IFG \ BandBits
    /\ rtc' = RtcStart
    /\ GIE' = TRUE
    /\ mainpc' = "sd_card_init"
    /\ UNCHANGED <<isrpc, readings, reading_count, muon_count,
                   isr_count, captured, oob_store, wrs_calls, last_isr, variety>>
    /\ UNCHANGED <<sdVars, drvVars, clkVars, testVars>>

\* the call of sd_card_init in main, by its effect: sd_initialized is set to 0
\* or to 1, and sd_buffer is cleared when it is set to 1
MainSdCardInit(ok) ==
    /\ mainpc = "sd_card_init" /\ isrpc = "idle"
    /\ sd_initialized' = ok
    /\ sd_buffer' = IF ok = 1 THEN Zeros ELSE sd_buffer
    /\ mainpc' = "header"
    /\ UNCHANGED <<buffer_position, current_sector, oob_buf, wrs_i, flush_calls, last_flush, write_log>>
    /\ UNCHANGED <<isrpc, GIE, P2IFG, rtc, readings, reading_count, muon_count,
                   isr_count, captured, oob_store, wrs_calls, last_isr, variety>>
    /\ UNCHANGED <<drvVars, clkVars, testVars>>

\* strlen: index of the first zero byte
StrLen(buf) ==
    IF \E x \in 0..Len(buf) : BufAt(buf, x) = 0
    THEN CHOOSE x \in 0..Len(buf) :
             BufAt(buf, x) = 0 /\ \A y \in 0..(x - 1) : BufAt(buf, y) # 0
    ELSE SD_BUFFER_SIZE

\* strcpy(sd_buffer, header), which copies the terminating zero too;
\* buffer_position = strlen(sd_buffer)
MainHeader ==
    /\ mainpc = "header" /\ isrpc = "idle"
    /\ LET buf == StoreAt(sd_buffer, 0, HeaderFR2355 \o <<0>>)
       IN  /\ sd_buffer' = buf
           /\ buffer_position' = StrLen(buf)
    /\ mainpc' = "idle"
    /\ UNCHANGED <<current_sector, sd_initialized, oob_buf, wrs_i, flush_calls, last_flush, write_log>>
    /\ UNCHANGED <<isrpc, GIE, P2IFG, rtc, readings, reading_count, muon_count,
                   isr_count, captured, oob_store, wrs_calls, last_isr, variety>>
    /\ UNCHANGED <<drvVars, clkVars, testVars>>

----------------------------------------------------------------------------
(* Spec: the FR2355 build from power-up, and from the quiescent point      *)
(* LongRun captures later (a multiple of MAX_READINGS: the event buffer is *)
(* empty again, main idles, and no block has been written so far because   *)
(* the card was never initialised or every write failed).                  *)

LongRun == 4095 * MAX_READINGS

\* the driver's history before any call
NoBus ==
    [cmd1_ready |-> FALSE, cmd16 |-> FALSE, cmd24 |-> 0, addr |-> 0,
     tokens |-> 0, data |-> 0, polls |-> 0, r1 |-> 0]
NoBoot ==
    [present_seen |-> FALSE, absent_seen |-> FALSE, inits |-> 0,
     init_ok |-> FALSE]

DrvOff ==
    /\ retry_count = 0 /\ drvpc = "off" /\ drv_i = 0 /\ response = 0
    /\ drv_ret = 0 /\ CS = "high" /\ boot_log = NoBoot /\ bus_log = NoBus

\* the card test program is not running
NoTest ==
    /\ test_sector = 0 /\ test_buffer = Zeros /\ read_buffer = Zeros
    /\ medium = <<>> /\ trace = <<>>

\* the capture pipeline and the storage cursor
InitPipeline ==
    /\ isrpc = "idle"
    /\ P2IFG = {}
    /\ readings = [i \in ReadingIndex |-> ZeroReading]
    /\ reading_count = 0
    /\ sd_buffer = Zeros
    /\ buffer_position = 0
    /\ current_sector = 0
    /\ isr_count = 0
    /\ captured = [i \in ReadingIndex |-> 0]
    /\ oob_store = FALSE
    /\ oob_buf = FALSE
    /\ wrs_calls = 0
    /\ wrs_i = 0
    /\ flush_calls = 0
    /\ last_flush = NoFlush
    /\ write_log = <<>>
    /\ last_isr = [n |-> 0, flags |-> {}, band |-> 0, count_in |-> 0, flushed |-> FALSE]
    /\ variety = 0

\* everything but the clock
InitRest == NoTest /\ InitPipeline

InitCommon == InitRest /\ rtc = RtcStart /\ rtc0 = RtcStart /\ ticks = 0

Init ==
    /\ InitCommon
    /\ DrvOff
    /\ \/ mainpc = "msp_init" /\ GIE = FALSE /\ muon_count = 0 /\ sd_initialized = 0
       \/ mainpc = "idle" /\ GIE = TRUE /\ muon_count = LongRun /\ sd_initialized \in {0, 1}

Next ==
    \/ MspInit
    \/ \E ok \in {0, 1} : MainSdCardInit(ok)
    \/ MainHeader
    \/ \E bit \in BandBits : Edge(bit)
    \/ \E temp \in Temps : ISRP2_body(temp)
    \/ Wrs
    \/ \E ret \in WriteRets : Flush(ret)
    \/ ISRP2_exit

Spec == Init /\ [][Next]_vars

----------------------------------------------------------------------------
(* The software clock of the FR2355 build (TIGR.c): Timer_B0_ISR runs      *)
(* every 10 ms and advances the BCD fields rtc_second .. rtc_year.         *)

\* static const unsigned char days_in_month[], without its unused entry 0
days_in_month == <<31, 28, 29, 31, 30, 31, 30, 31, 31, 30, 31, 31>>

\* the decimal value of a BCD byte, and of a four-digit BCD word
ValOfBcd(b)  == ((b \div 16) % 16) * 10 + (b % 16)
ValOfBcd4(w) == ((w \div 4096) % 16) * 1000 + ((w \div 256) % 16) * 100
                + ((w \div 16) % 16) * 10 + (w % 16)

\* (mutant) the Julian rule
leap_every_fourth_year(year_bcd) == ValOfBcd4(year_bcd) % 4 = 0

is_leap_year(year_bcd) ==
    LET year == ValOfBcd4(year_bcd)
    IN  (year % 4 = 0 /\ year % 100 # 0) \/ year % 400 = 0

get_max_days(month_bcd, year_bcd) ==
    LET month == ValOfBcd(month_bcd)
    IN  IF month = 2 /\ is_leap_year(year_bcd) THEN 29
        ELSE IF month >= 1 /\ month <= 12 THEN days_in_month[month]
        ELSE 31

\* (mutant) the low digit is incremented without the decimal carry
bcd_increment_binary(bcd, max_val) ==
    IF ((bcd \div 16) % 16) * 10 + (bcd % 16) + 1 > max_val
    THEN (IF max_val = 59 \/ max_val = 23 THEN 0 ELSE 1)
    ELSE (bcd + 1) % 256

\* bcd_increment on unsigned char
bcd_increment(bcd, max_val) ==
    LET low0    == (bcd % 16) + 1
        low     == IF low0 > 9 THEN 0 ELSE low0
        high    == ((bcd \div 16) % 16) + (IF low0 > 9 THEN 1 ELSE 0)
        result  == (high * 16 + low) % 256
        decimal == (high * 10 + low) % 256
    IN  IF decimal > max_val
        THEN (IF max_val = 59 \/ max_val = 23 THEN 0 ELSE 1)
        ELSE result

\* bcd_year_increment on unsigned int (16 bits)
bcd_year_increment(year_bcd) ==
    LET y == (ValOfBcd4(year_bcd) + 1) % 65536
    IN  ((y \div 1000) * 4096 + ((y \div 100) % 10) * 256
         + ((y \div 10) % 10) * 16 + (y % 10)) % 65536

\* one invocation of Timer_B0_ISR on the clock fields clk
Timer_B0_ISR(clk) ==
    LET ms == (clk.ms + 10) % 65536
    IN  IF ms < 1000 THEN [clk EXCEPT !.ms = ms]
        ELSE
        LET second == bcd_increment(clk.second, 59)
            c1     == [clk EXCEPT !.ms = 0, !.second = second]
        IN  IF second # 0 THEN c1
            ELSE
            LET minute == bcd_increment(clk.minute, 59)
                c2     == [c1 EXCEPT !.minute = minute]
            IN  IF minute # 0 THEN c2
                ELSE
                LET hour == bcd_increment(clk.hour, 23)
                    c3   == [c2 EXCEPT !.hour = hour]
                IN  IF hour # 0 THEN c3
                    ELSE
                    LET day == bcd_increment(clk.day,
                                             get_max_days(clk.month, clk.year))
                        c4  == [c3 EXCEPT !.day = day]
                    IN  IF day # 1 THEN c4
                        ELSE
                        LET month == bcd_increment(clk.month, 12)
                            c5    == [c4 EXCEPT !.month = month]
                        IN  IF month # 1 THEN c5
                            ELSE [c5 EXCEPT !.year = bcd_year_increment(clk.year)]

\* the clock fields after k invocations of Timer_B0_ISR from clk
RECURSIVE ClockAfter(_, _)
ClockAfter(k, clk) ==
    IF k = 0 THEN clk
    ELSE IF k = 1 THEN Timer_B0_ISR(clk)
    ELSE \* the first half of the invocations, then the rest; half ranges over
         \* a singleton, so that it is computed once
         CHOOSE c \in {ClockAfter(k - k \div 2, half) :
                          half \in {ClockAfter(k \div 2, clk)}} : TRUE

\* (mutant) the timer interrupt is accepted while another handler runs
tick_nested(gie, pc) == gie

\* the timer interrupt is accepted when GIE is set; the hardware clears GIE
\* on the entry of a handler and restores it on its return
TickAccepted(gie, pc) == gie /\ pc = "idle"

MaxTicks == 3

\* the TB0CCR0 interrupt
Tick ==
    /\ TickAccepted(GIE, isrpc)
    /\ ticks < MaxTicks
    /\ rtc' = Timer_B0_ISR(rtc)
    /\ ticks' = ticks + 1
    /\ UNCHANGED <<mainpc, isrpc, GIE, P2IFG, readings, reading_count, muon_count,
                   isr_count, captured, oob_store, wrs_calls, last_isr, variety,
                   rtc0>>
    /\ UNCHANGED <<sdVars, drvVars, testVars>>

(* SpecClock: the clock alone, from the last ticks of any day of a year    *)

\* the BCD encoding of a number below 100, and below 10000
BcdOf(n)  == (n \div 10) * 16 + (n % 10)
BcdOf4(n) == BcdOf(n \div 100) * 256 + BcdOf(n % 100)

\* calendar years the runs start in
ClockYears == {2000, 2023, 2024, 2025, 2028, 2100}

\* the length of month m of year y in the Gregorian calendar
TrueDays(m, y) ==
    IF m = 2
    THEN (IF (y % 4 = 0 /\ y % 100 # 0) \/ y % 400 = 0 THEN 29 ELSE 28)
    ELSE IF m \in {4, 6, 9, 11} THEN 30 ELSE 31

\* the valid calendar states one or two ticks before midnight, and the
\* last tick of every second of some minutes of the day the clock is set to
InitClock ==
    /\ InitRest
    /\ DrvOff
    /\ mainpc = "idle" /\ GIE = TRUE /\ muon_count = 0 /\ sd_initialized = 0
    /\ \/ \E y \in ClockYears, m \in 1..12, k \in 1..2 :
             \E d \in 1..TrueDays(m, y) :
                rtc = [year |-> BcdOf4(y), month |-> BcdOf(m), day |-> BcdOf(d),
                       hour |-> BcdOf(23), minute |-> BcdOf(59),
                       second |-> BcdOf(59), ms |-> 1000 - 10 * k]
       \/ \E h \in 0..23, m \in {8, 9, 59}, sec \in 0..59 :
             rtc = [RtcStart EXCEPT !.hour = BcdOf(h), !.minute = BcdOf(m),
                                    !.second = BcdOf(sec), !.ms = 990]
       \/ \E h \in {9, 19, 23}, m \in 0..59 :
             rtc = [RtcStart EXCEPT !.hour = BcdOf(h), !.minute = BcdOf(m),
                                    !.second = BcdOf(59), !.ms = 990]
    /\ rtc0 = rtc
    /\ ticks = 0

NextClock == Tick

SpecClock == InitClock /\ [][NextClock]_vars

----------------------------------------------------------------------------
(* SpecDay: the clock alone over one day.  Nothing else runs, so a step is *)
(* the TicksPerMinute invocations of Timer_B0_ISR of one minute.           *)

\* rtc_ms += 10; if (rtc_ms >= 1000): a second has 100 ticks
TicksPerSecond == 1000 \div 10
TicksPerMinute == 60 * TicksPerSecond
TicksPerDay    == 24 * 60 * TicksPerMinute

TickMinute ==
    /\ TickAccepted(GIE, isrpc)
    /\ ticks < TicksPerDay
    /\ rtc' = ClockAfter(TicksPerMinute, rtc)
    /\ ticks' = ticks + TicksPerMinute
    /\ UNCHANGED <<mainpc, isrpc, GIE, P2IFG, readings, reading_count, muon_count,
                   isr_count, captured, oob_store, wrs_calls, last_isr, variety,
                   rtc0>>
    /\ UNCHANGED <<sdVars, drvVars, testVars>>

\* days the runs start on, as <<year, month, day>>, and the time of day
StartDays == {<<2025, 10, 14>>, <<2025, 3, 29>>, <<2025, 12, 31>>}

InitDay ==
    /\ InitRest
    /\ DrvOff
    /\ mainpc = "idle" /\ GIE = TRUE /\ muon_count = 0 /\ sd_initialized = 0
    /\ \E s \in StartDays :
          rtc = [year |-> BcdOf4(s[1]), month |-> BcdOf(s[2]), day |-> BcdOf(s[3]),
                 hour |-> BcdOf(12), minute |-> BcdOf(34), second |-> BcdOf(56),
                 ms |-> 780]
    /\ rtc0 = rtc
    /\ ticks = 0

NextDay == TickMinute

SpecDay == InitDay /\ [][NextDay]_vars

----------------------------------------------------------------------------
(* SpecRef: the clock of Reference Code/RTC.c.  Its program is main, which *)
(* starts Timer_B0 with a period of 1 ms and idles, and the handler        *)
(* T1A0ISR; ms, RTCSEC, RTCMIN, RTCHOUR and RTCDAY (unsigned short) are    *)
(* held as the fields of rtc.                                              *)

MaxRefTicks == 3

\* one invocation of T1A0ISR
T1A0ISR(c) ==
    IF c.ms = 999
    THEN IF c.RTCSEC = 59
         THEN IF c.RTCMIN = 59
              THEN IF c.RTCHOUR = 23
                   \* RTCMIN = 0; RTCDAY++;
                   THEN [c EXCEPT !.ms = 0, !.RTCSEC = 0, !.RTCMIN = 0,
                                  !.RTCDAY = Wrap16(c.RTCDAY + 1)]
                   ELSE [c EXCEPT !.ms = 0, !.RTCSEC = 0, !.RTCMIN = 0,
                                  !.RTCHOUR = Wrap16(c.RTCHOUR + 1)]
              ELSE [c EXCEPT !.ms = 0, !.RTCSEC = 0,
                             !.RTCMIN = Wrap16(c.RTCMIN + 1)]
         ELSE [c EXCEPT !.ms = 0, !.RTCSEC = Wrap16(c.RTCSEC + 1)]
    ELSE [c EXCEPT !.ms = Wrap16(c.ms + 1)]

\* the timer interrupt of the reference program: nothing masks it
RefTick ==
    /\ ticks < MaxRefTicks
    /\ rtc' = T1A0ISR(rtc)
    /\ ticks' = ticks + 1
    /\ UNCHANGED <<mainpc, isrpc, GIE, P2IFG, readings, reading_count, muon_count,
                   isr_count, captured, oob_store, wrs_calls, last_isr, variety,
                   rtc0>>
    /\ UNCHANGED <<sdVars, drvVars, testVars>>

\* the fields of the clock near their ends
RefEdge(top) == {0, top - 1, top}

\* The clock starts at day 0, 00:00:00.000.  Until the first RTCHOUR = 23,
\* RTCMIN = 59, RTCSEC = 59, ms = 999 the handler counts like a clock, so
\* every time of day 0 is reached; after that tick RTCHOUR is 23 and the
\* times of hour 23 are reached again, with RTCDAY at 1, 2, ...
InitRef ==
    /\ InitRest
    /\ DrvOff
    /\ mainpc = "idle" /\ GIE = TRUE /\ muon_count = 0 /\ sd_initialized = 0
    /\ \E d \in 0..2, h \in 0..23, m \in RefEdge(59), sec \in RefEdge(59),
          t \in {999 - k : k \in 0..(MaxRefTicks - 1)} :
          /\ d > 0 => h = 23
          /\ rtc = [ms |-> t, RTCSEC |-> sec, RTCMIN |-> m, RTCHOUR |-> h,
                    RTCDAY |-> d]
    /\ rtc0 = rtc
    /\ ticks = 0

NextRef == RefTick

SpecRef == InitRef /\ [][NextRef]_vars

----------------------------------------------------------------------------
(* SpecTick: the capture handler with save_reading run statement by        *)
(* statement, and the timer interrupt.                                     *)

MaxSaves == 2

\* the fields save_reading copies from the clock, in the order of its
\* statements, and the position after each
StampFields == <<"year", "month", "day", "hour", "minute", "second">>
SavePc(k) == IF k <= Len(StampFields) THEN StampFields[k] ELSE "temperature"

\* ISRP2 up to the first two statements of save_reading:
\* readings[reading_count].energy_band = band; .muon_number = muon_count;
ISRP2_enter ==
    /\ GIE /\ isrpc = "idle"
    /\ P2IFG \cap BandBits # {}
    /\ isr_count < MaxSaves
    /\ LET band == BandOfFlagsFR2355(P2IFG)
       IN  /\ readings' = IF reading_count \in ReadingIndex
                          THEN [readings EXCEPT
                                  ![reading_count].energy_band = band,
                                  ![reading_count].muon_number = muon_count]
                          ELSE readings
           /\ oob_store' = (oob_store \/ reading_count \notin ReadingIndex)
           /\ last_isr' = [n |-> isr_count + 1, flags |-> P2IFG, band |-> band,
                           count_in |-> reading_count, flushed |-> FALSE]
    /\ isr_count' = isr_count + 1
    /\ isrpc' = SavePc(1)
    /\ UNCHANGED <<mainpc, GIE, P2IFG, rtc, reading_count, muon_count, captured,
                   wrs_calls, variety>>
    /\ UNCHANGED <<sdVars, drvVars, clkVars, testVars>>

\* one of readings[reading_count].year = RTCYEAR; ... .second = RTCSEC;
save_reading_field ==
    /\ \E k \in 1..Len(StampFields) :
          /\ isrpc = SavePc(k)
          /\ readings' = IF reading_count \in ReadingIndex
                         THEN [readings EXCEPT
                                 ![reading_count][StampFields[k]] = rtc[StampFields[k]]]
                         ELSE readings
          /\ isrpc' = SavePc(k + 1)
    /\ UNCHANGED <<mainpc, GIE, P2IFG, rtc, reading_count, muon_count, isr_count,
                   captured, oob_store, wrs_calls, last_isr, variety>>
    /\ UNCHANGED <<sdVars, drvVars, clkVars, testVars>>

\* readings[reading_count].temperature = read_temperature(); reading_count++;
\* and, back in ISRP2, muon_count++ and the test of reading_count
save_reading_end(temp) ==
    /\ isrpc = "temperature"
    /\ temp = DefaultTemp \/ variety < MaxVariety
    /\ readings' = IF reading_count \in ReadingIndex
                   THEN [readings EXCEPT ![reading_count].temperature = temp]
                   ELSE readings
    /\ captured' = IF reading_count \in ReadingIndex
                   THEN [captured EXCEPT ![reading_count] = isr_count]
                   ELSE captured
    /\ reading_count' = Wrap16(reading_count + 1)
    /\ muon_count' = Wrap16(muon_count + 1)
    /\ wrs_calls' = IF ArrayFull(reading_count') THEN wrs_calls + 1 ELSE wrs_calls
    /\ isrpc' = IF ArrayFull(reading_count') THEN "wrs" ELSE "exit"
    /\ variety' = IF temp = DefaultTemp THEN variety ELSE variety + 1
    /\ UNCHANGED <<mainpc, GIE, P2IFG, rtc, isr_count, oob_store, last_isr>>
    /\ UNCHANGED <<sdVars, drvVars, clkVars, testVars>>

\* a plain instant, the last tick of a minute, and the last tick of a year
InitTick ==
    /\ InitRest
    /\ DrvOff
    /\ mainpc = "idle" /\ GIE = TRUE /\ muon_count = LongRun
    /\ sd_initialized = 0
    /\ rtc \in {RtcStart,
                [RtcStart EXCEPT !.second = BcdOf(59), !.ms = 990],
                [year |-> BcdOf4(2025), month |-> BcdOf(12), day |-> BcdOf(31),
                 hour |-> BcdOf(23), minute |-> BcdOf(59), second |-> BcdOf(59),
                 ms |-> 990]}
    /\ rtc0 = rtc
    /\ ticks = 0

NextTick ==
    \/ \E bit \in BandBits : Edge(bit)
    \/ Tick
    \/ ISRP2_enter
    \/ save_reading_field
    \/ \E temp \in Temps : save_reading_end(temp)
    \/ ISRP2_exit

SpecTick == InitTick /\ [][NextTick]_vars

----------------------------------------------------------------------------
(* SpecScenario: the FR2355 build from power-up; once main idles, edges    *)
(* arrive one at a time on the lines of band 1, 2, 3, 4, 1, ...; the clock *)
(* stands at the time msp_init sets and read_temperature() returns 23.     *)

\* a falling edge on the line of the next band in turn
EdgeInTurn ==
    /\ mainpc = "idle" /\ isrpc = "idle"
    /\ P2IFG \cap BandBits = {}
    /\ \E bit \in BandBits :
          /\ BandOfFlagsFR2355({bit}) = (isr_count % 4) + 1
          /\ P2IFG' = P2IFG \cup {bit}
    /\ UNCHANGED <<mainpc, isrpc, GIE, rtc, readings, reading_count, muon_count,
                   isr_count, captured, oob_store, wrs_calls, last_isr, variety>>
    /\ UNCHANGED <<sdVars, drvVars, clkVars, testVars>>

InitScenario ==
    /\ InitCommon
    /\ DrvOff
    /\ mainpc = "msp_init" /\ GIE = FALSE /\ muon_count = 0 /\ sd_initialized = 0

NextScenario ==
    \/ MspInit
    \/ \E ok \in {0, 1} : MainSdCardInit(ok)
    \/ MainHeader
    \/ EdgeInTurn
    \/ ISRP2_body(DefaultTemp)
    \/ Wrs
    \/ \E ret \in WriteRets : Flush(ret)
    \/ ISRP2_exit

SpecScenario == InitScenario /\ [][NextScenario]_vars

----------------------------------------------------------------------------
(* SpecCsv: write_readings_to_sd called by the capture handler with one    *)
(* record in the event buffer.  The record's fields are inputs.            *)

\* int_to_string(-32768): num = -num overflows the 16-bit int, which the
\* language leaves undefined.  Either the negation wraps, num stays -32768
\* and the digit loop (while (num > 0)) is skipped, or the build takes num
\* for positive after the negation and runs the loop body before the first
\* test: one character '0' + (num % 10) = '0' - 8, then num / 10 < 0 ends it.
\* In both cases the minus sign is appended and the string reversed.
int_to_string_outcomes(num) ==
    IF num = -32768
    THEN {<<ChrMinus>>, <<ChrMinus, Chr0 - 8>>}
    ELSE {int_to_string(num)}

\* the lines write_readings_to_sd can build for one reading
CsvLineOutcomes(r) ==
    {   uint_to_string(r.muon_number) \o <<ChrComma>>
     \o uint_to_string(r.energy_band) \o <<ChrComma>>
     \o hex_to_string_4(r.year) \o <<ChrDash>>
     \o bcd_to_string(r.month) \o <<ChrDash>>
     \o bcd_to_string(r.day) \o <<ChrComma>>
     \o bcd_to_string(r.hour) \o <<ChrColon>>
     \o bcd_to_string(r.minute) \o <<ChrColon>>
     \o bcd_to_string(r.second % 256) \o <<ChrComma>>
     \o t \o <<ChrNL>> : t \in int_to_string_outcomes(r.temperature)}

\* (mutant) the loop flushes only when the buffer is full to the last byte
write_loop_without_margin(st) == st.pos >= SD_BUFFER_SIZE

\* if (buffer_position >= SD_BUFFER_SIZE - 64) in write_readings_to_sd
FlushDue(st) == st.pos >= SD_BUFFER_SIZE - FLUSH_MARGIN

\* the loop of write_readings_to_sd as in WriteLoop, with every line it
\* can build: the places where the routine can stand next
RECURSIVE WriteLoopOutcomes(_, _, _, _)
WriteLoopOutcomes(i, n, rd, st) ==
    IF i < n
    THEN UNION {IF FlushDue(st1)
                THEN {[i |-> i + 1, st |-> st1, inloop |-> TRUE]}
                ELSE WriteLoopOutcomes(i + 1, n, rd, st1) :
                   st1 \in {PutBytes(st, line) : line \in CsvLineOutcomes(rd[i])}}
    ELSE {[i |-> i, st |-> st, inloop |-> FALSE]}

\* write_readings_to_sd, from where it stands up to its next call of
\* flush_buffer_to_sd, or to its return
WrsCsv ==
    /\ isrpc = "wrs"
    /\ \E run \in WriteLoopOutcomes(wrs_i, reading_count, readings,
                    SdState(sd_buffer, buffer_position, current_sector, sd_initialized)) :
       LET call == run.inloop \/ run.st.pos > 0
       IN  /\ sd_buffer' = run.st.buf
           /\ buffer_position' = run.st.pos
           /\ oob_buf' = (oob_buf \/ run.st.oob)
           /\ wrs_i' = run.i
           /\ isrpc' = IF run.inloop THEN "flush_in_loop"
                       ELSE IF call THEN "flush_last" ELSE "exit"
           /\ reading_count' = IF call THEN reading_count ELSE 0
    /\ UNCHANGED <<mainpc, GIE, P2IFG, rtc, readings, muon_count, isr_count,
                   captured, oob_store, wrs_calls, last_isr, variety>>
    /\ UNCHANGED <<current_sector, sd_initialized, flush_calls, last_flush, write_log>>
    /\ UNCHANGED <<drvVars, clkVars, testVars>>

\* the capture handler has filled the event buffer and calls
\* write_readings_to_sd; the fields of the first record are drawn from the
\* corner values of their types, the records after it are those of captures
\* on the default line at the same time
InitCsv ==
    /\ DrvOff /\ NoTest
    /\ mainpc = "idle" /\ GIE = FALSE /\ P2IFG = {DefaultBit}
    /\ isrpc = "wrs"
    /\ rtc \in
         {RtcStart,
          [year |-> BcdOf4(2000), month |-> BcdOf(1), day |-> BcdOf(1),
           hour |-> 0, minute |-> 0, second |-> 0, ms |-> 0],
          [year |-> BcdOf4(2024), month |-> BcdOf(2), day |-> BcdOf(29),
           hour |-> BcdOf(23), minute |-> BcdOf(59), second |-> BcdOf(59),
           ms |-> 990],
          [year |-> BcdOf4(9999), month |-> BcdOf(12), day |-> BcdOf(31),
           hour |-> BcdOf(9), minute |-> BcdOf(10), second |-> BcdOf(8),
           ms |-> 0]}
    /\ rtc0 = rtc /\ ticks = 0
    /\ \E n \in {0, 1, 9, 10, 99, 100, 9999, 10000, 32767, 32768, 65535} :
       \E band \in Bands :
       \E temp \in {-32768, -32767, -10000, -100, -10, -9, -1, 0, 1, 9, 10,
                    23, 100, 32767} :
         /\ muon_count = Wrap16(n + MAX_READINGS)
         /\ readings = [i \in ReadingIndex |->
              [muon_number |-> Wrap16(n + i),
               energy_band |-> IF i = 0 THEN band ELSE BandOfFlagsFR2355({DefaultBit}),
               year |-> rtc.year, month |-> rtc.month, day |-> rtc.day,
               hour |-> rtc.hour, minute |-> rtc.minute, second |-> rtc.second,
               temperature |-> IF i = 0 THEN temp ELSE DefaultTemp]]
    /\ reading_count = MAX_READINGS
    /\ sd_buffer = Zeros /\ buffer_position = 0
    /\ current_sector = 0 /\ sd_initialized = 1
    /\ isr_count = MAX_READINGS
    /\ captured = [i \in ReadingIndex |-> i + 1]
    /\ oob_store = FALSE /\ oob_buf = FALSE
    /\ wrs_calls = 1 /\ wrs_i = 0
    /\ flush_calls = 0 /\ last_flush = NoFlush /\ write_log = <<>>
    /\ last_isr = [n |-> MAX_READINGS, flags |-> {DefaultBit},
                   band |-> BandOfFlagsFR2355({DefaultBit}),
                   count_in |-> MAX_READINGS - 1, flushed |-> TRUE]
    /\ variety = 0

NextCsv ==
    \/ WrsCsv
    \/ \E ret \in WriteRets : Flush(ret)
    \/ ISRP2_exit

SpecCsv == InitCsv /\ [][NextCsv]_vars

----------------------------------------------------------------------------
(* SpecFill: write_readings_to_sd on a full event buffer whose records all *)
(* have long (or all short) fields, with sd_buffer empty or holding the    *)
(* header line main has put there.                                         *)

\* sequence numbers of the first record, and measurements of all records
FillNumbers == {0, 99, 10000, 32768, 65535 - MAX_READINGS, 65535}
FillTemps   == {-32767, -10000, 0, DefaultTemp, 32767}

\* the capture handler has filled the event buffer and calls
\* write_readings_to_sd.  With the header line still in sd_buffer this is the
\* first call, after captures 0 .. MAX_READINGS - 1; the first record may hold
\* the measurement -32768.
InitFill ==
    /\ DrvOff /\ NoTest
    /\ mainpc = "idle" /\ GIE = FALSE
    /\ isrpc = "wrs"
    /\ rtc \in
         {RtcStart,
          [year |-> BcdOf4(9999), month |-> BcdOf(12), day |-> BcdOf(31),
           hour |-> BcdOf(23), minute |-> BcdOf(59), second |-> BcdOf(59),
           ms |-> 990]}
    /\ rtc0 = rtc /\ ticks = 0
    /\ \E header \in BOOLEAN :
       \E n \in (IF header THEN {0} ELSE FillNumbers) :
       \E bit \in BandBits :
       \E temp \in FillTemps :
       \E first \in {temp, -32768} :
         /\ muon_count = Wrap16(n + MAX_READINGS)
         /\ readings = [i \in ReadingIndex |->
              [muon_number |-> Wrap16(n + i),
               energy_band |-> BandOfFlagsFR2355({bit}),
               year |-> rtc.year, month |-> rtc.month, day |-> rtc.day,
               hour |-> rtc.hour, minute |-> rtc.minute, second |-> rtc.second,
               temperature |-> IF i = 0 THEN first ELSE temp]]
         /\ sd_buffer = IF header THEN HeaderFR2355 ELSE Zeros
         /\ buffer_position = Len(sd_buffer)
         /\ P2IFG = {bit}
         /\ last_isr = [n |-> MAX_READINGS, flags |-> {bit},
                        band |-> BandOfFlagsFR2355({bit}),
                        count_in |-> MAX_READINGS - 1, flushed |-> TRUE]
    /\ reading_count = MAX_READINGS
    /\ current_sector = 0 /\ sd_initialized \in {0, 1}
    /\ isr_count = MAX_READINGS
    /\ captured = [i \in ReadingIndex |-> i + 1]
    /\ oob_store = FALSE /\ oob_buf = FALSE
    /\ wrs_calls = 1 /\ wrs_i = 0
    /\ flush_calls = 0 /\ last_flush = NoFlush /\ write_log = <<>>
    /\ variety = 0

NextFill ==
    \/ WrsCsv
    \/ \E ret \in WriteRets : Flush(ret)
    \/ ISRP2_exit

SpecFill == InitFill /\ [][NextFill]_vars

----------------------------------------------------------------------------
(* SpecBands: the capture handler of the FR2355 build with edges on all    *)
(* four band lines, at any moment, from the point where the event buffer   *)
(* holds MAX_READINGS - 1 records: the next capture fills the array and    *)
(* flushes, the ones after it find the array empty again.                  *)

\* hardware: a falling edge on P2.bit latches its flag, also while ISRP2 runs
EdgeAny(bit) ==
    /\ bit \notin P2IFG
    /\ P2IFG' = P2IFG \cup {bit}
    /\ UNCHANGED <<mainpc, isrpc, GIE, rtc, readings, reading_count, muon_count,
                   isr_count, captured, oob_store, wrs_calls, last_isr, variety>>
    /\ UNCHANGED <<sdVars, drvVars, clkVars, testVars>>

\* the event buffer after k captures on the line DefaultBit
RECURSIVE Captured(_)
Captured(k) ==
    IF k = 0
    THEN EvBuf([i \in ReadingIndex |-> ZeroReading], 0,
               [i \in ReadingIndex |-> 0], FALSE)
    ELSE save_reading(Captured(k - 1), BandOfFlagsFR2355({DefaultBit}),
                      LongRun + k - 1, RtcStart, DefaultTemp, k)

InitBands ==
    LET n  == MAX_READINGS - 1
        eb == Captured(n)
    IN  /\ mainpc = "idle" /\ GIE = TRUE /\ isrpc = "idle"
        /\ P2IFG = {}
        /\ rtc = RtcStart /\ rtc0 = RtcStart /\ ticks = 0
        /\ NoTest
        /\ readings = eb.rd /\ reading_count = eb.rc /\ captured = eb.cap
        /\ oob_store = eb.oob
        /\ muon_count = LongRun + n /\ isr_count = n
        /\ last_isr = [n |-> n, flags |-> {DefaultBit},
                       band |-> BandOfFlagsFR2355({DefaultBit}),
                       count_in |-> n - 1, flushed |-> FALSE]
        /\ wrs_calls = 0 /\ variety = 0
        /\ sd_buffer = Zeros /\ buffer_position = 0 /\ current_sector = 0
        /\ sd_initialized \in {0, 1}
        /\ oob_buf = FALSE /\ wrs_i = 0 /\ flush_calls = 0
        /\ last_flush = NoFlush /\ write_log = <<>>
        /\ DrvOff

NextBands ==
    \/ \E bit \in BandBits : EdgeAny(bit)
    \/ \E temp \in Temps : ISRP2_body(temp)
    \/ Wrs
    \/ \E ret \in WriteRets : Flush(ret)
    \/ ISRP2_exit

SpecBands == InitBands /\ [][NextBands]_vars

----------------------------------------------------------------------------
(* SpecOrder: the FR2355 capture handler at a quiescent point with the     *)
(* card initialised and MAX_READINGS - 1 records in the event buffer: the  *)
(* next capture fills the array and calls write_readings_to_sd, and the    *)
(* MAX_READINGS captures after it fill and flush it a second time.         *)

\* the sequence number of the first record in the event buffer
OrderStarts == {MAX_READINGS, LongRun - (MAX_READINGS - 1)}

InitOrder ==
    LET n == MAX_READINGS - 1
    IN  /\ mainpc = "idle" /\ GIE = TRUE /\ isrpc = "idle"
        /\ P2IFG = {}
        /\ rtc = RtcStart /\ rtc0 = RtcStart /\ ticks = 0
        /\ NoTest /\ DrvOff
        /\ \E m0 \in OrderStarts :
             /\ readings = [i \in ReadingIndex |->
                  IF i < n
                  THEN [muon_number |-> Wrap16(m0 + i),
                        energy_band |-> BandOfFlagsFR2355({DefaultBit}),
                        year |-> rtc.year, month |-> rtc.month, day |-> rtc.day,
                        hour |-> rtc.hour, minute |-> rtc.minute,
                        second |-> rtc.second, temperature |-> DefaultTemp]
                  ELSE ZeroReading]
             /\ muon_count = Wrap16(m0 + n)
        /\ reading_count = n
        \* the captures before this point are numbered -(n - 1) .. 0
        /\ captured = [i \in ReadingIndex |-> IF i < n THEN i - n + 1 ELSE 0]
        /\ isr_count = 0
        /\ last_isr = [n |-> 0, flags |-> {DefaultBit},
                       band |-> BandOfFlagsFR2355({DefaultBit}),
                       count_in |-> n - 1, flushed |-> FALSE]
        /\ oob_store = FALSE /\ wrs_calls = 0 /\ variety = 0
        /\ sd_buffer = Zeros /\ buffer_position = 0 /\ current_sector = 0
        /\ sd_initialized = 1
        /\ oob_buf = FALSE /\ wrs_i = 0 /\ flush_calls = 0
        /\ last_flush = NoFlush /\ write_log = <<>>

NextOrder ==
    \/ \E bit \in BandBits : Edge(bit)
    \/ \E temp \in Temps : ISRP2_body(temp)
    \/ Wrs
    \/ \E ret \in WriteRets : Flush(ret)
    \/ ISRP2_exit

SpecOrder == InitOrder /\ [][NextOrder]_vars

----------------------------------------------------------------------------
(* SpecPort: the capture handler of the FR2355 build with falling edges    *)
(* on a band line and on a line of Port 2 that is no band line (P2.0),     *)
(* from the start of SpecOrder.  The flag of P2.0 is latched like the      *)
(* others, and stays, but requests no interrupt.                           *)

PortLines == {DefaultBit, 0}

NextPort ==
    \/ \E bit \in PortLines : EdgeAny(bit)
    \/ \E temp \in {DefaultTemp} : ISRP2_body(temp)
    \/ Wrs
    \/ \E ret \in WriteRets : Flush(ret)
    \/ ISRP2_exit

SpecPort == InitOrder /\ [][NextPort]_vars

----------------------------------------------------------------------------
(* The MMC/SD driver (tigr_mmc.c).  The card's answer to one command is an *)
(* input: idle-fill bytes (0xFF), then the bytes of junk, then byte for    *)
(* every later exchange.                                                   *)

Answers ==
    {[idle |-> n, junk |-> j, byte |-> b] :
        n \in {0, 3, MMC_RESPONSE_TIMEOUT, MMC_RESPONSE_TIMEOUT + 1},
        j \in {<<>>, <<5>>},
        b \in {MMC_R1_RESPONSE, MMC_R1_IDLE_STATE, 5, IDLE_FILL}}

\* the answers to CMD1: still initialising, ready, illegal command, silence
InitAnswers ==
    {[idle |-> 0, junk |-> <<>>, byte |-> b] :
        b \in {MMC_R1_IDLE_STATE, MMC_R1_RESPONSE, 5, IDLE_FILL}}

\* the byte the card returns to the k-th exchange after a command
ByteAt(d, k) ==
    IF k <= d.idle THEN IDLE_FILL
    ELSE IF k - d.idle <= Len(d.junk) THEN d.junk[k - d.idle]
    ELSE d.byte

\* mmc_get_response: the loop from counter value i on
RECURSIVE GetResponseLoop(_, _)
GetResponseLoop(d, i) ==
    LET r == ByteAt(d, i + 1)
    IN  IF r = 0 \/ r = 1 THEN [resp |-> r, polls |-> i + 1]
        ELSE IF i + 1 <= MMC_RESPONSE_TIMEOUT THEN GetResponseLoop(d, i + 1)
        ELSE [resp |-> r, polls |-> i + 1]

mmc_get_response(d) == GetResponseLoop(d, 0)

\* mmc_ping from the card-detect line
mmc_ping(card_present) == IF card_present THEN MMC_SUCCESS ELSE MMC_INIT_ERROR

\* !x of C
CNot(x) == x = 0

bootFrame == <<isrpc, GIE, P2IFG, rtc, readings, reading_count, muon_count,
               isr_count, captured, oob_store, wrs_calls, last_isr, variety,
               buffer_position, current_sector, oob_buf, wrs_i, flush_calls,
               last_flush, write_log, ticks, rtc0, testVars>>

----------------------------------------------------------------------------
(* sd_card_init of the FR2355 build (sd_utils.c), one loop iteration a step *)

\* (mutant) the presence wait without its retry limit
ping_wait_unbounded(card_present, rc) == CNot(mmc_ping(card_present))

\* the condition of the presence-wait loop
PingLoopCond(card_present, rc) ==
    CNot(mmc_ping(card_present)) /\ rc < PING_WAIT_LIMIT

\* while (!mmc_ping() && retry_count < 30) { delay; retry_count++; }
SciPing(card_present) ==
    /\ mainpc = "sci_ping"
    /\ boot_log' = [boot_log EXCEPT
                      !.present_seen = @ \/ card_present,
                      !.absent_seen = @ \/ ~card_present]
    /\ IF PingLoopCond(card_present, retry_count)
       THEN retry_count' = retry_count + 1 /\ mainpc' = "sci_ping"
       ELSE retry_count' = retry_count /\ mainpc' = "sci_ping_check"
    /\ UNCHANGED <<sd_initialized, sd_buffer, drvpc, drv_i, response, drv_ret,
                   CS, bus_log>>
    /\ UNCHANGED bootFrame

\* if (retry_count >= 10) { sd_initialized = 0; return; }  retry_count = 0;
SciPingCheck ==
    /\ mainpc = "sci_ping_check"
    /\ IF retry_count >= PING_ABSENT_LIMIT
       THEN /\ sd_initialized' = 0
            /\ mainpc' = "done"
            /\ retry_count' = retry_count
       ELSE /\ sd_initialized' = sd_initialized
            /\ mainpc' = "sci_init"
            /\ retry_count' = 0
    /\ UNCHANGED <<sd_buffer, drvpc, drv_i, response, drv_ret, CS, boot_log, bus_log>>
    /\ UNCHANGED bootFrame

\* the call of mmc_init in the condition of the second loop
SciInitCall ==
    /\ mainpc = "sci_init"
    /\ mainpc' = "sci_init_wait"
    /\ drvpc' = "mi_go_idle"
    /\ boot_log' = [boot_log EXCEPT !.inits = @ + 1]
    /\ bus_log' = NoBus
    /\ UNCHANGED <<sd_initialized, sd_buffer, retry_count, drv_i, response,
                   drv_ret, CS>>
    /\ UNCHANGED bootFrame

\* while (mmc_init() != MMC_SUCCESS && retry_count < 3) { delay; retry_count++; }
SciInitLoop ==
    /\ mainpc = "sci_init_wait" /\ drvpc = "ret"
    /\ boot_log' = [boot_log EXCEPT !.init_ok = @ \/ (drv_ret = MMC_SUCCESS)]
    /\ IF drv_ret # MMC_SUCCESS /\ retry_count < INIT_RETRIES
       THEN retry_count' = retry_count + 1 /\ mainpc' = "sci_init"
       ELSE retry_count' = retry_count /\ mainpc' = "sci_init_check"
    /\ drvpc' = "off" /\ drv_i' = 0 /\ response' = 0 /\ drv_ret' = 0   \* locals gone
    /\ bus_log' = NoBus
    /\ UNCHANGED <<sd_initialized, sd_buffer, CS>>
    /\ UNCHANGED bootFrame

\* if (retry_count >= 3) sd_initialized = 0; else { sd_initialized = 1; memset }
SciInitCheck ==
    /\ mainpc = "sci_init_check"
    /\ IF retry_count >= INIT_RETRIES
       THEN sd_initialized' = 0 /\ sd_buffer' = sd_buffer
       ELSE sd_initialized' = 1 /\ sd_buffer' = Zeros
    /\ mainpc' = "done"
    /\ UNCHANGED <<retry_count, drvpc, drv_i, response, drv_ret, CS, boot_log, bus_log>>
    /\ UNCHANGED bootFrame

----------------------------------------------------------------------------
(* mmc_init, one command a step *)

drvFrame == <<mainpc, retry_count, sd_initialized, sd_buffer, boot_log>>

\* spi_init, 80 clocks with CS high, then mmc_go_idle (CMD0)
MiGoIdle(d) ==
    /\ drvpc = "mi_go_idle"
    /\ LET r == mmc_get_response(d)
       IN  /\ IF r.resp # MMC_R1_IDLE_STATE
              THEN /\ drv_ret' = MMC_INIT_ERROR
                   /\ drvpc' = "ret"
                   /\ UNCHANGED <<response, drv_i>>
              ELSE /\ response' = 1
                   /\ drv_i' = 0
                   /\ drvpc' = "mi_cmd1"
                   /\ UNCHANGED drv_ret
    /\ CS' = "high"
    /\ UNCHANGED bus_log
    /\ UNCHANGED drvFrame
    /\ UNCHANGED bootFrame

\* the condition of the CMD1 loop
Cmd1LoopCond(resp, i) == resp = 1 /\ i < MMC_INIT_TIMEOUT

\* One iteration of
\*   while (response == 0x01 && i < MMC_INIT_TIMEOUT) { CMD1; response = ...; i++; }
\* and the next test of its condition; when that fails, CS_HIGH and
\*   if (i >= MMC_INIT_TIMEOUT) return MMC_TIMEOUT_ERROR;
\* The first test, with response = 0x01 and i = 0, always passes.  The
\* counter is dead once the loop is left.
MiCmd1(d) ==
    /\ drvpc = "mi_cmd1"
    /\ Cmd1LoopCond(response, drv_i)
    /\ LET r == mmc_get_response(d)
           i == drv_i + 1
       IN  /\ response' = r.resp
           /\ bus_log' = [bus_log EXCEPT
                            !.cmd1_ready = @ \/ (r.resp = MMC_R1_RESPONSE)]
           /\ IF Cmd1LoopCond(r.resp, i)
              THEN /\ drv_i' = i
                   /\ CS' = "low"
                   /\ UNCHANGED <<drvpc, drv_ret>>
              ELSE /\ drv_i' = 0
                   /\ CS' = "high"
                   /\ IF i >= MMC_INIT_TIMEOUT
                      THEN drv_ret' = MMC_TIMEOUT_ERROR /\ drvpc' = "ret"
                      ELSE drv_ret' = drv_ret /\ drvpc' = "mi_blocklen"
    /\ UNCHANGED drvFrame
    /\ UNCHANGED bootFrame

\* mmc_set_block_length(MMC_BLOCK_SIZE) (CMD16) and the return of mmc_init
MiSetBlockLen(d) ==
    /\ drvpc = "mi_blocklen"
    /\ LET r == mmc_get_response(d)
       IN  /\ bus_log' = [bus_log EXCEPT !.cmd16 = TRUE]
           /\ drv_ret' = IF r.resp # MMC_R1_RESPONSE
                         THEN MMC_BLOCK_SET_ERROR ELSE MMC_SUCCESS
    /\ drvpc' = "ret"
    /\ CS' = "high"
    /\ UNCHANGED <<response, drv_i>>
    /\ UNCHANGED drvFrame
    /\ UNCHANGED bootFrame

(* SpecBoot: main of the FR2355 build inside sd_card_init *)

InitBoot ==
    /\ InitCommon
    /\ mainpc = "sci_ping" /\ GIE = TRUE /\ muon_count = 0 /\ sd_initialized = 0
    /\ retry_count = 0 /\ drvpc = "off" /\ drv_i = 0 /\ response = 0
    /\ drv_ret = 0 /\ CS = "high" /\ boot_log = NoBoot /\ bus_log = NoBus

NextBoot ==
    \/ \E card_present \in BOOLEAN : SciPing(card_present)
    \/ SciPingCheck
    \/ SciInitCall
    \/ SciInitLoop
    \/ SciInitCheck
    \/ \E d \in Answers : MiGoIdle(d)
    \/ \E d \in InitAnswers : MiCmd1(d)
    \/ \E d \in Answers : MiSetBlockLen(d)

SpecBoot == InitBoot /\ [][NextBoot]_vars

----------------------------------------------------------------------------
(* flush_buffer_to_sd with mmc_write_block (CMD24) spelled out, one bus     *)
(* phase a step.  Between flushes the buffer is filled with CSV lines.      *)

MaxSectors == 2
MaxFill    == 60

writeFrame == <<mainpc, isrpc, GIE, P2IFG, rtc, readings, reading_count,
                isr_count, captured, oob_store, wrs_calls, last_isr, variety,
                sd_initialized, oob_buf, wrs_i, write_log, retry_count, boot_log,
                ticks, rtc0, testVars>>

\* the reading whose line FillLine appends
FillReading(mc) == [ZeroReading EXCEPT !.muon_number = mc, !.energy_band = 1,
                                       !.year = RtcStart.year, !.month = RtcStart.month,
                                       !.day = RtcStart.day, !.hour = RtcStart.hour,
                                       !.temperature = DefaultTemp]

\* one pass of the formatting loop of write_readings_to_sd
FillLine ==
    /\ drvpc = "off"
    /\ buffer_position < MaxFill
    /\ LET st0 == SdState(sd_buffer, buffer_position, current_sector, sd_initialized)
           st1 == PutBytes(st0, CsvLine(FillReading(muon_count)))
       IN  /\ sd_buffer' = st1.buf
           /\ buffer_position' = st1.pos
    /\ UNCHANGED <<current_sector, flush_calls, last_flush, drvpc, drv_i,
                   response, drv_ret, CS, bus_log, muon_count>>
    /\ UNCHANGED writeFrame

\* flush_buffer_to_sd up to the call of mmc_write_sector:
\* if (buffer_position == 0) return; zero padding; if (sd_initialized) ...
FlushEntry ==
    /\ drvpc = "off"
    /\ current_sector < MaxSectors
    /\ buffer_position > 0
    /\ sd_buffer' = ZeroFrom(sd_buffer, buffer_position)
    /\ IF sd_initialized # 0
       THEN /\ drvpc' = "wb_cmd"
            /\ CS' = "low"
            \* (sector) * 512UL, which stays below 2^32 for every sector reached
            /\ bus_log' = [NoBus EXCEPT !.addr = current_sector * MMC_BLOCK_SIZE]
       ELSE /\ drvpc' = "fl_ret"
            /\ CS' = CS
            /\ bus_log' = NoBus
    /\ drv_ret' = 0 /\ drv_i' = 0 /\ response' = 0
    /\ flush_calls' = 0 /\ last_flush' = NoFlush     \* history of this call only
    /\ UNCHANGED <<buffer_position, current_sector, muon_count>>
    /\ UNCHANGED writeFrame

\* (mutant) the data phase starts whatever the card answered to the command
write_cmd_ignores_response(resp) == [pc |-> "wb_data", ret |-> 0]

\* mmc_write_block after mmc_get_response:
\* if (response != MMC_R1_RESPONSE) { CS_HIGH(); return MMC_RESPONSE_ERROR; }
mmc_write_block_cmd(resp) ==
    IF resp # MMC_R1_RESPONSE
    THEN [pc |-> "fl_ret", ret |-> MMC_RESPONSE_ERROR]
    ELSE [pc |-> "wb_data", ret |-> 0]

\* CMD24 and the poll for its response
WbCmd(d) ==
    /\ drvpc = "wb_cmd"
    /\ LET r == mmc_get_response(d)
           n == mmc_write_block_cmd(r.resp)
       IN  /\ bus_log' = [bus_log EXCEPT !.cmd24 = @ + 1, !.polls = r.polls,
                                         !.r1 = r.resp]
           /\ drvpc' = n.pc
           /\ drv_ret' = n.ret
           /\ CS' = IF n.pc = "fl_ret" THEN "high" ELSE "low"
    /\ UNCHANGED <<sd_buffer, buffer_position, current_sector, flush_calls,
                   last_flush, muon_count, drv_i, response>>
    /\ UNCHANGED writeFrame

\* the bytes a card may return as data response
DataResponses == {5, 229, 11, 13, IDLE_FILL}

\* dummy byte, data token, MMC_BLOCK_SIZE bytes, two CRC bytes, data response
WbData(dr) ==
    /\ drvpc = "wb_data"
    /\ bus_log' = [bus_log EXCEPT !.tokens = @ + 1, !.data = @ + MMC_BLOCK_SIZE]
    /\ response' = dr
    /\ IF dr % 32 # 5
       THEN drvpc' = "fl_ret" /\ drv_ret' = MMC_WRITE_ERROR /\ CS' = "high"
       ELSE drvpc' = "wb_busy" /\ drv_ret' = drv_ret /\ CS' = CS
    /\ drv_i' = 0
    /\ UNCHANGED <<sd_buffer, buffer_position, current_sector, flush_calls,
                   last_flush, muon_count>>
    /\ UNCHANGED writeFrame

\* one pass of the loop of mmc_check_busy, and what follows its end:
\* do { response = spi_send_byte(0xFF); i++; } while (response == 0x00 && i < 1000);
WbBusy(b) ==
    /\ drvpc = "wb_busy"
    /\ LET i == drv_i + 1
       IN  /\ response' = b
           /\ IF b = 0 /\ i < MMC_BUSY_TIMEOUT
              THEN drv_i' = i /\ UNCHANGED <<drvpc, drv_ret>>
              ELSE /\ drv_i' = 0
                   /\ drv_ret' = IF i < MMC_BUSY_TIMEOUT
                                 THEN MMC_SUCCESS ELSE MMC_TIMEOUT_ERROR
                   /\ drvpc' = "fl_ret"
    /\ CS' = IF drvpc' = "fl_ret" THEN "high" ELSE "low"
    /\ UNCHANGED <<sd_buffer, buffer_position, current_sector, flush_calls,
                   last_flush, muon_count, bus_log>>
    /\ UNCHANGED writeFrame

\* flush_buffer_to_sd from the return of mmc_write_sector on
FlushRet ==
    /\ drvpc = "fl_ret"
    /\ LET st0 == SdState(sd_buffer, buffer_position, current_sector, sd_initialized)
           st1 == flush_buffer_to_sd(st0, drv_ret)
       IN  /\ sd_buffer' = st1.buf
           /\ buffer_position' = st1.pos
           /\ current_sector' = st1.sector
           /\ last_flush' = FlushRecord(st0, st1)
    /\ flush_calls' = 1
    /\ drvpc' = "off"
    /\ UNCHANGED <<muon_count, drv_i, response, drv_ret, CS, bus_log>>
    /\ UNCHANGED writeFrame

InitWrite ==
    /\ InitCommon
    /\ mainpc = "idle" /\ GIE = TRUE /\ muon_count = LongRun
    /\ sd_initialized \in {0, 1}
    /\ DrvOff

NextWrite ==
    \/ FillLine
    \/ FlushEntry
    \/ \E d \in Answers : WbCmd(d)
    \/ \E dr \in DataResponses : WbData(dr)
    \/ \E b \in {0, IDLE_FILL} : WbBusy(b)
    \/ FlushRet

SpecWrite == InitWrite /\ [][NextWrite]_vars

----------------------------------------------------------------------------
(* SpecLive: the three parts of the firmware side by side, with the        *)
(* processor's progress as fairness.  Each behaviour follows one part:     *)
(*   - main inside sd_card_init (the steps of SpecBoot);                   *)
(*   - main and the capture handler ISRP2, a flush by its effect (Spec);   *)
(*   - flush_buffer_to_sd with the bus phases of mmc_write_block spelled   *)
(*     out (SpecWrite), which runs inside ISRP2, where the hardware has    *)
(*     cleared GIE.                                                        *)
(* The processor executes its next instruction, and an SPI exchange always *)
(* completes (the master clocks it), so every step of main, of the handler *)
(* and of the driver is taken when it stays enabled.  Edges on the band    *)
(* lines and the start of a flush are the environment's and are not forced.*)

InBoot    == mainpc \in {"sci_ping", "sci_ping_check", "sci_init",
                         "sci_init_wait", "sci_init_check", "done"}
InDriver  == mainpc = "idle" /\ ~GIE
InCapture == ~InBoot /\ ~InDriver

InitLive ==
    \/ Init
    \/ InitBoot
    \/ /\ InitCommon
       /\ mainpc = "idle" /\ GIE = FALSE /\ muon_count = LongRun
       /\ sd_initialized \in {0, 1}
       /\ DrvOff

HandlerSteps ==
    InCapture /\ (Wrs \/ (\E ret \in WriteRets : Flush(ret)) \/ ISRP2_exit)

DriverSteps ==
    /\ InDriver
    /\ \/ \E d \in Answers : WbCmd(d)
       \/ \E dr \in DataResponses : WbData(dr)
       \/ \E b \in {0, IDLE_FILL} : WbBusy(b)
       \/ FlushRet

NextLive ==
    \/ InBoot /\ NextBoot
    \/ InCapture /\ Next
    \/ InDriver /\ NextWrite

\* only one of the three kinds of step is ever enabled in a behaviour
ProgramSteps == (InBoot /\ NextBoot) \/ HandlerSteps \/ DriverSteps

SpecLive == InitLive /\ [][NextLive]_vars /\ WF_vars(ProgramSteps)

----------------------------------------------------------------------------
(* The SDCardTIGR prototype (SDCardTIGR/TIGR_Prototype/TIGR.c): the port    *)
(* handler ISRP1 calls save_reading(band), which either stores the record   *)
(* or, with the array full, calls write_readings_to_sd.                     *)

\* RTCYEAR .. RTCSEC as msp_init sets them
RtcStartSDCard ==
    [year |-> 8229, month |-> 9, day |-> 17, hour |-> 18, minute |-> 0,
     second |-> 0, ms |-> 0]

\* "Muon#,Band,Date,Time\n"
HeaderSDCard ==
    <<77, 117, 111, 110, 35, 44, 66, 97, 110, 100, 44, 68, 97, 116, 101, 44,
      84, 105, 109, 101, 10>>

\* one digit of %X
HexChr(n) == IF n < 10 THEN Chr0 + n ELSE 55 + n

\* %04X and %02X of sprintf
Hex4(v) == <<HexChr((v \div 4096) % 16), HexChr((v \div 256) % 16),
             HexChr((v \div 16) % 16), HexChr(v % 16)>>
Hex2(v) == <<HexChr((v \div 16) % 16), HexChr(v % 16)>>

\* sprintf(data_string, "%u,%u,%04X-%02X-%02X,%02X:%02X:%02X\n", ...)
CsvLineSDCard(r) ==
       uint_to_string(r.muon_number) \o <<ChrComma>>
    \o uint_to_string(r.energy_band) \o <<ChrComma>>
    \o Hex4(r.year) \o <<ChrDash>> \o Hex2(r.month) \o <<ChrDash>>
    \o Hex2(r.day) \o <<ChrComma>> \o Hex2(r.hour) \o <<ChrColon>>
    \o Hex2(r.minute) \o <<ChrColon>> \o Hex2(r.second) \o <<ChrNL>>

\* save_reading(band): what it does to the event buffer; wrs tells that
\* the else branch ran (write_readings_to_sd(); reading_count = 0;)
save_reading_sdcard(eb, band, mc, clk, ev) ==
    LET rec == [muon_number |-> mc, energy_band |-> band,
                year |-> clk.year, month |-> clk.month, day |-> clk.day,
                hour |-> clk.hour, minute |-> clk.minute, second |-> clk.second,
                temperature |-> 0]
    IN  IF eb.rc < MAX_READINGS
        THEN [eb  |-> [eb EXCEPT !.rd[eb.rc] = rec, !.cap[eb.rc] = ev,
                                 !.rc = eb.rc + 1],
              wrs |-> FALSE]
        ELSE [eb |-> eb, wrs |-> TRUE]

\* the if / else-if chain of ISRP1 over P2IFG: 0 when no branch is taken
BandOfFlagsSDCard(ifg) ==
    IF 4 \in ifg THEN 4
    ELSE IF 3 \in ifg THEN 3
    ELSE IF 2 \in ifg THEN 2
    ELSE IF 1 \in ifg THEN 1
    ELSE 0

\* flush_buffer_to_sd of the prototype: mmc_write_sector is called whatever
\* sd_initialized holds
flush_buffer_to_sd_sdcard(st, ret) ==
    IF st.pos = 0 THEN st
    ELSE [st EXCEPT
            !.writes = Append(st.writes, [sector |-> st.sector, ret |-> ret,
                                          block |-> ZeroFrom(st.buf, st.pos)]),
            !.sector = IF ret = MMC_SUCCESS THEN st.sector + 1 ELSE st.sector,
            !.pos    = 0,
            !.buf    = Zeros]

\* the loop of write_readings_to_sd from reading i on, up to the reading
\* whose line would reach the end of the buffer (flush_buffer_to_sd is
\* called before it is copied), or to the end of the loop
RECURSIVE WriteLoopSDCard(_, _, _, _)
WriteLoopSDCard(i, n, rd, st) ==
    IF i < n
    THEN LET line == CsvLineSDCard(rd[i])
         IN  IF st.pos + Len(line) >= SD_BUFFER_SIZE
             THEN [i |-> i, st |-> st, inloop |-> TRUE]
             ELSE WriteLoopSDCard(i + 1, n, rd, PutBytes(st, line))
    ELSE [i |-> i, st |-> st, inloop |-> FALSE]

\* msp_init: clears the four flags, starts the RTC, enables interrupts
MspInitSDCard ==
    /\ mainpc = "msp_init" /\ isrpc = "idle"
    /\ P2IFG' = P2IFG \ BandBits
    /\ rtc' = RtcStartSDCard
    /\ GIE' = TRUE
    /\ mainpc' = "sd_card_init"
    /\ UNCHANGED <<isrpc, readings, reading_count, muon_count,
                   isr_count, captured, oob_store, wrs_calls, last_isr, variety>>
    /\ UNCHANGED <<sdVars, drvVars, clkVars, testVars>>

\* main calls sd_card_init: from here to its return main polls mmc_ping,
\* waits in __delay_cycles and runs mmc_init, with interrupts enabled
MainSciCall ==
    /\ mainpc = "sd_card_init" /\ isrpc = "idle"
    /\ mainpc' = "in_sd_card_init"
    /\ UNCHANGED <<isrpc, GIE, P2IFG, rtc, readings, reading_count, muon_count,
                   isr_count, captured, oob_store, wrs_calls, last_isr, variety>>
    /\ UNCHANGED <<sdVars, drvVars, clkVars, testVars>>

\* the end of sd_card_init in main, by its effect: sd_initialized is set to 0
\* or to 1, and sd_buffer is cleared when it is set to 1
MainSciReturn(ok) ==
    /\ mainpc = "in_sd_card_init" /\ isrpc = "idle"
    /\ sd_initialized' = ok
    /\ sd_buffer' = IF ok = 1 THEN Zeros ELSE sd_buffer
    /\ mainpc' = "header"
    /\ UNCHANGED <<buffer_position, current_sector, oob_buf, wrs_i, flush_calls,
                   last_flush, write_log>>
    /\ UNCHANGED <<isrpc, GIE, P2IFG, rtc, readings, reading_count, muon_count,
                   isr_count, captured, oob_store, wrs_calls, last_isr, variety>>
    /\ UNCHANGED <<drvVars, clkVars, testVars>>

\* main: if (sd_initialized) { strcpy(sd_buffer, header); buffer_position = strlen }
MainHeaderSDCard ==
    /\ mainpc = "header" /\ isrpc = "idle"
    /\ LET buf == StoreAt(sd_buffer, 0, HeaderSDCard \o <<0>>)
       IN  IF sd_initialized # 0
           THEN sd_buffer' = buf /\ buffer_position' = StrLen(buf)
           ELSE UNCHANGED <<sd_buffer, buffer_position>>
    /\ mainpc' = "idle"
    /\ UNCHANGED <<current_sector, sd_initialized, oob_buf, wrs_i, flush_calls,
                   last_flush, write_log>>
    /\ UNCHANGED <<isrpc, GIE, P2IFG, rtc, readings, reading_count, muon_count,
                   isr_count, captured, oob_store, wrs_calls, last_isr, variety>>
    /\ UNCHANGED <<drvVars, clkVars, testVars>>

\* ISRP1 from its entry to the return of save_reading's first branch, or to
\* the call of write_readings_to_sd in its else branch
ISRP1_body ==
    /\ GIE /\ isrpc = "idle"
    /\ P2IFG \cap BandBits # {}
    /\ isr_count < MaxCaptures
    /\ LET band == BandOfFlagsSDCard(P2IFG)
           ev   == isr_count + 1
           eb0  == EvBuf(readings, reading_count, captured, oob_store)
           sr   == IF band # 0
                   THEN save_reading_sdcard(eb0, band, muon_count, rtc, ev)
                   ELSE [eb |-> eb0, wrs |-> FALSE]
       IN  /\ readings' = sr.eb.rd
           /\ captured' = sr.eb.cap
           /\ reading_count' = sr.eb.rc
           /\ wrs_calls' = IF sr.wrs THEN wrs_calls + 1 ELSE wrs_calls
           /\ isrpc' = IF sr.wrs THEN "wrs_init" ELSE "exit"
           /\ isr_count' = ev
           /\ last_isr' = [n |-> ev, flags |-> P2IFG, band |-> band,
                           count_in |-> reading_count, flushed |-> sr.wrs]
    /\ wrs_i' = 0
    /\ UNCHANGED <<mainpc, GIE, P2IFG, rtc, muon_count, oob_store, variety>>
    /\ UNCHANGED <<sd_buffer, buffer_position, current_sector, sd_initialized,
                   oob_buf, flush_calls, last_flush, write_log>>
    /\ UNCHANGED <<drvVars, clkVars, testVars>>

\* write_readings_to_sd: if (!sd_initialized) { sd_card_init();
\* if (!sd_initialized) return; }, sd_card_init by its effect
WrsInitSDCard(ok) ==
    /\ isrpc = "wrs_init"
    /\ sd_initialized # 0 => ok = 1
    /\ IF sd_initialized = 0
       THEN /\ sd_initialized' = ok
            /\ sd_buffer' = IF ok = 1 THEN Zeros ELSE sd_buffer
       ELSE UNCHANGED <<sd_initialized, sd_buffer>>
    /\ isrpc' = IF ok = 1 THEN "wrs" ELSE "exit"
    /\ reading_count' = IF ok = 1 THEN reading_count ELSE 0
    /\ UNCHANGED <<mainpc, GIE, P2IFG, rtc, readings, muon_count, isr_count,
                   captured, oob_store, wrs_calls, last_isr, variety>>
    /\ UNCHANGED <<buffer_position, current_sector, oob_buf, wrs_i, flush_calls,
                   last_flush, write_log>>
    /\ UNCHANGED <<drvVars, clkVars, testVars>>

\* write_readings_to_sd, from where it stands up to its next call of
\* flush_buffer_to_sd, or to its return (then reading_count = 0)
WrsSDCard ==
    /\ isrpc = "wrs"
    /\ LET st0  == SdState(sd_buffer, buffer_position, current_sector, sd_initialized)
           run  == WriteLoopSDCard(wrs_i, reading_count, readings, st0)
           call == run.inloop \/ run.st.pos > 0
       IN  /\ sd_buffer' = run.st.buf
           /\ buffer_position' = run.st.pos
           /\ oob_buf' = (oob_buf \/ run.st.oob)
           /\ wrs_i' = run.i
           /\ isrpc' = IF run.inloop THEN "flush_in_loop"
                       ELSE IF call THEN "flush_last" ELSE "exit"
           /\ reading_count' = IF call THEN reading_count ELSE 0
    /\ UNCHANGED <<mainpc, GIE, P2IFG, rtc, readings, muon_count, isr_count,
                   captured, oob_store, wrs_calls, last_isr, variety>>
    /\ UNCHANGED <<current_sector, sd_initialized, flush_calls, last_flush, write_log>>
    /\ UNCHANGED <<drvVars, clkVars, testVars>>

\* a call of flush_buffer_to_sd from write_readings_to_sd
FlushSDCard(ret) ==
    /\ isrpc \in {"flush_in_loop", "flush_last"}
    /\ LET st0 == SdState(sd_buffer, buffer_position, current_sector, sd_initialized)
           st1 == flush_buffer_to_sd_sdcard(st0, ret)
       IN  /\ sd_buffer' = st1.buf
           /\ buffer_position' = st1.pos
           /\ current_sector' = st1.sector
           /\ write_log' = write_log \o LogEntries(st1.writes)
           /\ flush_calls' = flush_calls + 1
           /\ last_flush' = FlushRecord(st0, st1)
    /\ isrpc' = IF isrpc = "flush_in_loop" THEN "wrs" ELSE "exit"
    /\ reading_count' = IF isrpc = "flush_in_loop" THEN reading_count ELSE 0
    /\ UNCHANGED <<mainpc, GIE, P2IFG, rtc, readings, muon_count, isr_count,
                   captured, oob_store, wrs_calls, last_isr, variety>>
    /\ UNCHANGED <<sd_initialized, oob_buf, wrs_i>>
    /\ UNCHANGED <<drvVars, clkVars, testVars>>

\* muon_count++; P2IFG &= ~(BIT1 | BIT2 | BIT3 | BIT4); return from interrupt
ISRP1_exit ==
    /\ isrpc = "exit"
    /\ muon_count' = Wrap16(muon_count + 1)
    /\ P2IFG' = P2IFG \ BandBits
    /\ isrpc' = "idle"
    /\ UNCHANGED <<mainpc, GIE, rtc, readings, reading_count,
                   isr_count, captured, oob_store, wrs_calls, last_isr, variety>>
    /\ UNCHANGED <<sdVars, drvVars, clkVars, testVars>>

InitSDCard ==
    /\ InitCommon
    /\ DrvOff
    /\ mainpc = "msp_init" /\ GIE = FALSE /\ muon_count = 0 /\ sd_initialized = 0

NextSDCard ==
    \/ MspInitSDCard
    \/ MainSciCall
    \/ \E ok \in {0, 1} : MainSciReturn(ok)
    \/ MainHeaderSDCard
    \/ \E bit \in BandBits : Edge(bit)
    \/ ISRP1_body
    \/ \E ok \in {0, 1} : WrsInitSDCard(ok)
    \/ WrsSDCard
    \/ \E ret \in WriteRets : FlushSDCard(ret)
    \/ ISRP1_exit

SpecSDCard == InitSDCard /\ [][NextSDCard]_vars

----------------------------------------------------------------------------
(* The card test program (test_sd.c): mmc_init, then a block written to a  *)
(* sector and read back.  The driver routines are run against a card that  *)
(* keeps the blocks it accepts; how the card answers each command (the     *)
(* idle bytes before its response, the response, the data response, the    *)
(* busy bytes, the bytes before the data token) is an input.               *)

\* an unsigned long, as its two 16-bit halves
U32(hi, lo) == [hi |-> hi, lo |-> lo]

\* (mutant) the sector index is cut to 16 bits before the multiplication
sector_index_16_bits(sector) == U32(((sector % 65536) \div 128) % 65536, (sector % 128) * 512)

\* (sector)*512UL of mmc_read_sector and mmc_write_sector: the product
\* modulo 2^32 (sector stands for an index below 2^31)
Mul512UL(sector) == U32((sector \div 128) % 65536, (sector % 128) * 512)

\* (mutant) the argument goes out low byte first
send_cmd_low_byte_first(cmd, arg, crc) ==
    <<IF (cmd \div 64) % 2 = 1 THEN cmd ELSE cmd + 64,
      arg.lo % 256, (arg.lo \div 256) % 256, arg.hi % 256, (arg.hi \div 256) % 256,
      crc>>

\* mmc_send_cmd: the bytes handed to spi_send_byte, each cut to 8 bits:
\* cmd | 0x40, arg >> 24, arg >> 16, arg >> 8, arg, crc
mmc_send_cmd(cmd, arg, crc) ==
    <<IF (cmd \div 64) % 2 = 1 THEN cmd ELSE cmd + 64,
      (arg.hi \div 256) % 256,
      arg.hi % 256,
      (arg.hi * 256 + (arg.lo \div 256)) % 256,
      arg.lo % 256,
      crc>>

\* the array buffer as the MMC_BLOCK_SIZE bytes buffer[0], buffer[1], ...
BlockBytes(buffer) == [i \in 1..MMC_BLOCK_SIZE |-> BufAt(buffer, i - 1)]

\* mmc_check_busy against a card that sends nb busy bytes (0x00) and then
\* 0xFF; the do-while loop is left at the first non-zero byte or with
\* i = 1000:  return (i < 1000) ? MMC_SUCCESS : MMC_TIMEOUT_ERROR;
mmc_check_busy(nb) ==
    LET i == IF nb + 1 < MMC_BUSY_TIMEOUT THEN nb + 1 ELSE MMC_BUSY_TIMEOUT
    IN  [ret |-> IF i < MMC_BUSY_TIMEOUT THEN MMC_SUCCESS ELSE MMC_TIMEOUT_ERROR,
         polls |-> i]

\* mmc_get_xx_response(resp) against a card that sends t.delay idle bytes,
\* then the byte t.token, then (if that was not resp) idle bytes: the loop
\* is left at the first byte equal to resp or after MMC_TOKEN_TIMEOUT + 1
\* exchanges, and the last byte read is returned
mmc_get_xx_response(resp, t) ==
    IF t.token = resp /\ t.delay <= MMC_TOKEN_TIMEOUT
    THEN [resp |-> resp, polls |-> t.delay + 1]
    ELSE [resp |-> IF t.delay = MMC_TOKEN_TIMEOUT THEN t.token ELSE IDLE_FILL,
          polls |-> MMC_TOKEN_TIMEOUT + 1]

\* mmc_go_idle; d is the card's answer to the command
mmc_go_idle(d) ==
    LET r == mmc_get_response(d)
    IN  [op |-> "go_idle", arg |-> U32(0, 0),
         frame |-> mmc_send_cmd(MMC_GO_IDLE_STATE, U32(0, 0), 149),
         d |-> d, r1 |-> r.resp, polls |-> r.polls,
         ret |-> IF r.resp # MMC_R1_IDLE_STATE THEN MMC_RESPONSE_ERROR ELSE MMC_SUCCESS,
         \* CS_LOW(); ... { CS_HIGH(); return error; }  CS_HIGH(); return
         cs |-> IF r.resp # MMC_R1_IDLE_STATE
                THEN <<"low", "high">> ELSE <<"low", "high">>]

\* (mutant) the data loop of mmc_write_block starts at buffer[1]
write_data_from_second_byte(buffer) ==
    <<IDLE_FILL, MMC_START_DATA_BLOCK_TOKEN>>
        \o [i \in 1..MMC_BLOCK_SIZE |-> BufAt(buffer, i)] \o <<IDLE_FILL, IDLE_FILL>>

\* the bytes mmc_write_block sends once the command is answered: a dummy
\* byte, the data token, buffer[0..511], two dummy CRC bytes
WriteDataPhase(buffer) ==
    <<IDLE_FILL, MMC_START_DATA_BLOCK_TOKEN>> \o BlockBytes(buffer) \o <<IDLE_FILL, IDLE_FILL>>

\* mmc_write_block; w.d is the card's answer to the command, w.dr its data
\* response, w.nb the number of busy bytes it sends
mmc_write_block(address, buffer, w) ==
    LET frame == mmc_send_cmd(MMC_WRITE_BLOCK, address, IDLE_FILL)
        r     == mmc_get_response(w.d)
        head  == [op |-> "write", arg |-> address, frame |-> frame,
                  d |-> w.d, r1 |-> r.resp, polls |-> r.polls]
        busy  == mmc_check_busy(w.nb)
    IN  IF r.resp # MMC_R1_RESPONSE
        THEN head @@ [ret |-> MMC_RESPONSE_ERROR, sent |-> <<>>,
                      cs |-> <<"low", "high">>]
        ELSE IF w.dr % 32 # 5
        THEN head @@ [ret |-> MMC_WRITE_ERROR, sent |-> WriteDataPhase(buffer),
                      dr |-> w.dr, cs |-> <<"low", "high">>]
        ELSE head @@ [ret |-> busy.ret, sent |-> WriteDataPhase(buffer),
                      dr |-> w.dr, nb |-> w.nb, busy_polls |-> busy.polls,
                      cs |-> IF busy.ret # MMC_SUCCESS
                             THEN <<"low", "high">> ELSE <<"low", "high">>]

\* (mutant) the data loop of mmc_read_block runs whether or not the token came
read_block_ignores_token(token) == TRUE

\* mmc_read_block after mmc_get_xx_response:
\* if (... != MMC_START_DATA_BLOCK_TOKEN) { CS_HIGH(); return MMC_DATA_TOKEN_ERROR; }
TokenSeen(token) == token = MMC_START_DATA_BLOCK_TOKEN

\* mmc_read_block; rd.d is the card's answer to the command, rd.t tells
\* when it sends which token, data are the bytes it sends after the token
\* (the block, two CRC bytes, then idle bytes)
mmc_read_block(address, buffer, rd, data) ==
    LET frame == mmc_send_cmd(MMC_READ_SINGLE_BLOCK, address, IDLE_FILL)
        r     == mmc_get_response(rd.d)
        head  == [op |-> "read", arg |-> address, frame |-> frame,
                  d |-> rd.d, r1 |-> r.resp, polls |-> r.polls]
        tok   == mmc_get_xx_response(MMC_START_DATA_BLOCK_TOKEN, rd.t)
    IN  IF r.resp # MMC_R1_RESPONSE
        THEN head @@ [ret |-> MMC_RESPONSE_ERROR, buffer |-> buffer, exchanges |-> 0,
                      cs |-> <<"low", "high">>]
        ELSE IF ~TokenSeen(tok.resp)
        THEN head @@ [ret |-> MMC_DATA_TOKEN_ERROR, buffer |-> buffer, t |-> rd.t,
                      token_polls |-> tok.polls, exchanges |-> 0,
                      cs |-> <<"low", "high">>]
        ELSE head @@ [ret |-> MMC_SUCCESS, cs |-> <<"low", "high">>,
                      buffer |-> [i \in 1..MMC_BLOCK_SIZE |-> data[i]],
                      t |-> rd.t, token_polls |-> tok.polls,
                      discarded |-> <<data[MMC_BLOCK_SIZE + 1], data[MMC_BLOCK_SIZE + 2]>>,
                      exchanges |-> MMC_BLOCK_SIZE + 2]

(* The card *)

\* the byte address the card reads from a command frame
CardAddress(frame) ==
    U32(frame[2] * 256 + frame[3], frame[4] * 256 + frame[5])

\* the block the card takes from the bytes sent to it in the data phase:
\* the MMC_BLOCK_SIZE bytes after the first data token
CardBlock(sent) ==
    LET k == CHOOSE k \in 1..Len(sent) :
                 /\ sent[k] = MMC_START_DATA_BLOCK_TOKEN
                 /\ \A j \in 1..(k - 1) : sent[j] # MMC_START_DATA_BLOCK_TOKEN
    IN  SubSeq(sent, k + 1, k + MMC_BLOCK_SIZE)

\* what the card holds at a byte address it never took a block for
Erased == [i \in 1..MMC_BLOCK_SIZE |-> 170]
CardCrc == <<18, 52>>

CardHolds(m, address) == IF address \in DOMAIN m THEN m[address] ELSE Erased

\* the card keeps the block of a write it answered with "data accepted"
CardAfterWrite(m, call) ==
    IF Len(call.sent) > 0 /\ call.dr % 32 = 5
    THEN [a \in DOMAIN m \cup {CardAddress(call.frame)} |->
            IF a = CardAddress(call.frame) THEN CardBlock(call.sent) ELSE m[a]]
    ELSE m

\* the bytes the card sends after the data token of a read
CardData(m, frame) ==
    BlockBytes(CardHolds(m, CardAddress(frame))) \o CardCrc \o <<IDLE_FILL>>

(* test_sd.c *)

\* the card's answers to the reset command in this test, and its answers
\* to a block command: ready at once, ready with the last poll, in idle
\* state, silent
ResetAnswers ==
    {[idle |-> n, junk |-> j, byte |-> b] :
        n \in {0, MMC_RESPONSE_TIMEOUT, MMC_RESPONSE_TIMEOUT + 1},
        j \in {<<>>, <<5>>},
        b \in {MMC_R1_RESPONSE, MMC_R1_IDLE_STATE, IDLE_FILL}}
BlockAnswers ==
    {[idle |-> 0, junk |-> <<>>, byte |-> MMC_R1_RESPONSE],
     [idle |-> MMC_RESPONSE_TIMEOUT, junk |-> <<>>, byte |-> MMC_R1_RESPONSE],
     [idle |-> 0, junk |-> <<>>, byte |-> MMC_R1_IDLE_STATE],
     [idle |-> MMC_RESPONSE_TIMEOUT + 1, junk |-> <<>>, byte |-> MMC_R1_RESPONSE]}

\* result = mmc_init(); of which mmc_go_idle is run here (SpecBoot has the
\* rest, which is taken to succeed); if (result != MMC_SUCCESS) while(1);
TestInit(d) ==
    /\ Len(trace) = 0
    /\ trace' = <<mmc_go_idle(d)>>
    /\ UNCHANGED <<test_sector, test_buffer, read_buffer, medium>>
    /\ UNCHANGED <<capVars, sdVars, drvVars, clkVars>>

\* result = mmc_write_sector(sector, test_buffer);
TestWrite(w) ==
    /\ Len(trace) = 1 /\ trace[1].ret = MMC_SUCCESS
    /\ \E call \in {mmc_write_block(Mul512UL(test_sector), test_buffer, w)} :
           /\ trace' = Append(trace, [k \in DOMAIN call \ {"sent"} |-> call[k]])
           /\ medium' = CardAfterWrite(medium, call)
    /\ UNCHANGED <<test_sector, test_buffer, read_buffer>>
    /\ UNCHANGED <<capVars, sdVars, drvVars, clkVars>>

\* result = mmc_read_sector(sector, read_buffer);
TestRead(rd) ==
    /\ Len(trace) = 2
    /\ LET address == Mul512UL(test_sector)
           frame   == mmc_send_cmd(MMC_READ_SINGLE_BLOCK, address, IDLE_FILL)
       IN  \E data \in {CardData(medium, frame)} :
           \E call \in {mmc_read_block(address, read_buffer, rd, data)} :
           /\ trace' = Append(trace, [k \in DOMAIN call \ {"buffer"} |-> call[k]])
           /\ read_buffer' = call.buffer
    /\ UNCHANGED <<test_sector, test_buffer, medium>>
    /\ UNCHANGED <<capVars, sdVars, drvVars, clkVars>>

\* the sectors and the contents of test_buffer the test is run with, the
\* contents read_buffer starts with; the test's arrays are held in full
TestSectors == {0, 10, 65535, 65536, 65546, 8388607, 8388618}
TestPattern == [i \in 1..MMC_BLOCK_SIZE |-> (i - 1) % 256]
\* a block that holds a data token, idle bytes and a zero inside
TestPayloads == {TestPattern, <<254, 255, 5, 0, 1>>}

InitTest ==
    /\ InitPipeline /\ rtc = RtcStart /\ rtc0 = RtcStart /\ ticks = 0
    /\ DrvOff
    /\ mainpc = "idle" /\ GIE = FALSE /\ muon_count = 0 /\ sd_initialized = 0
    /\ test_sector \in TestSectors
    /\ test_buffer \in {BlockBytes(p) : p \in TestPayloads}
    /\ read_buffer = BlockBytes(<<1, 2, 3>>)
    /\ medium = <<>>
    /\ trace = <<>>

NextTest ==
    \/ \E d \in ResetAnswers : TestInit(d)
    \/ \E d \in BlockAnswers : \E dr \in {5, 229, 11} : \E nb \in {0, 998, 999} :
          TestWrite([d |-> d, dr |-> dr, nb |-> nb])
    \/ \E d \in BlockAnswers :
       \E t \in {[delay |-> 0, token |-> MMC_START_DATA_BLOCK_TOKEN],
                 [delay |-> MMC_TOKEN_TIMEOUT, token |-> MMC_START_DATA_BLOCK_TOKEN],
                 [delay |-> MMC_TOKEN_TIMEOUT + 1, token |-> MMC_START_DATA_BLOCK_TOKEN],
                 [delay |-> 0, token |-> 9]} :
          TestRead([d |-> d, t |-> t])

SpecTest == InitTest /\ [][NextTest]_vars

----------------------------------------------------------------------------
(* SpecSelect: the six routines of the block driver called one after the   *)
(* other, in any order, against a card whose answers are inputs; the       *)
(* chip-select line is followed through the CS_LOW() and CS_HIGH() of the  *)
(* path each call takes.                                                   *)

MaxCalls == 3

\* the level of the chip-select line after the operations ops
LineAfter(level, ops) == IF Len(ops) = 0 THEN level ELSE ops[Len(ops)]

\* mmc_set_block_length(length); d is the card's answer to the command
mmc_set_block_length(length, d) ==
    LET r == mmc_get_response(d)
    IN  [op |-> "set_block_length", arg |-> length,
         frame |-> mmc_send_cmd(MMC_SET_BLOCKLEN, length, IDLE_FILL),
         d |-> d, r1 |-> r.resp, polls |-> r.polls,
         ret |-> IF r.resp # MMC_R1_RESPONSE THEN MMC_BLOCK_SET_ERROR ELSE MMC_SUCCESS,
         cs |-> IF r.resp # MMC_R1_RESPONSE
                THEN <<"low", "high">> ELSE <<"low", "high">>]

\* mmc_init; c.d0 is the card's answer to the reset command, c.busy the
\* number of operating-condition commands it answers with 0x01, c.then its
\* answer to the ones after those, c.d16 its answer to the block length
\* command.  The loop is left with i attempts made.
mmc_init(c) ==
    LET gi   == mmc_go_idle(c.d0)
        i    == IF c.busy + 1 < MMC_INIT_TIMEOUT THEN c.busy + 1 ELSE MMC_INIT_TIMEOUT
        last == IF c.busy < i THEN mmc_get_response(c.then).resp ELSE MMC_R1_IDLE_STATE
        sbl  == mmc_set_block_length(U32(0, MMC_BLOCK_SIZE), c.d16)
        \* spi_init and the 80 clocks, then mmc_go_idle
        pre  == <<"high", "high">> \o gi.cs
        \* CS_HIGH(); CS_LOW(); in each pass, CS_HIGH(); after the loop
        loop == [j \in 1..(2 * i) |-> IF j % 2 = 1 THEN "high" ELSE "low"] \o <<"high">>
    IN  IF gi.ret # 0
        THEN [op |-> "init", c |-> c, ret |-> MMC_INIT_ERROR, attempts |-> 0,
              cs |-> pre]
        ELSE IF i >= MMC_INIT_TIMEOUT
        THEN [op |-> "init", c |-> c, ret |-> MMC_TIMEOUT_ERROR, attempts |-> i,
              response |-> last, cs |-> pre \o loop]
        ELSE IF sbl.ret # MMC_SUCCESS
        THEN [op |-> "init", c |-> c, ret |-> MMC_BLOCK_SET_ERROR, attempts |-> i,
              response |-> last, cs |-> pre \o loop \o sbl.cs]
        ELSE [op |-> "init", c |-> c, ret |-> MMC_SUCCESS, attempts |-> i,
              response |-> last, cs |-> pre \o loop \o sbl.cs]

\* (mutant) the token error path returns without CS_HIGH()
read_register_leaves_card_selected(tok) == <<"low">>

\* mmc_read_register after mmc_get_xx_response:
\* if (... != MMC_START_DATA_BLOCK_TOKEN) { CS_HIGH(); return MMC_DATA_TOKEN_ERROR; }
ReadRegisterNoToken(tok) == <<"low", "high">>

\* mmc_read_register(cmd_register, length, buffer); rg.d is the card's answer
\* to the command, rg.t tells when it sends which token, data are the bytes
\* it sends after the token
mmc_read_register(cmd_register, length, rg, data) ==
    LET r    == mmc_get_response(rg.d)
        head == [op |-> "read_register", arg |-> U32(0, 0),
                 frame |-> mmc_send_cmd(cmd_register, U32(0, 0), IDLE_FILL),
                 d |-> rg.d, r1 |-> r.resp, polls |-> r.polls]
        tok  == mmc_get_xx_response(MMC_START_DATA_BLOCK_TOKEN, rg.t)
    IN  IF r.resp # MMC_R1_RESPONSE
        THEN head @@ [ret |-> MMC_RESPONSE_ERROR, buffer |-> <<>>,
                      cs |-> <<"low", "high">>]
        ELSE IF tok.resp # MMC_START_DATA_BLOCK_TOKEN
        THEN head @@ [ret |-> MMC_DATA_TOKEN_ERROR, buffer |-> <<>>, t |-> rg.t,
                      token_polls |-> tok.polls, cs |-> ReadRegisterNoToken(tok)]
        ELSE head @@ [ret |-> MMC_SUCCESS, t |-> rg.t, token_polls |-> tok.polls,
                      buffer |-> [i \in 1..length |-> data[i]],
                      cs |-> <<"low", "high">>]

\* the loop of mmc_init or of mmc_check_busy in the call c: the passes it
\* made and the last byte it read (no pass when the call did not reach it)
LoopOf(c) ==
    IF c.op = "init" /\ c.ret # MMC_INIT_ERROR
    THEN [n |-> c.attempts, last |-> c.response]
    ELSE IF c.op = "write" /\ c.ret \notin {MMC_RESPONSE_ERROR, MMC_WRITE_ERROR}
    THEN [n |-> c.busy_polls,
          last |-> IF c.busy_polls = c.nb + 1 THEN IDLE_FILL ELSE 0]
    ELSE [n |-> 0, last |-> 0]

\* a driver routine runs from its call to its return; call is what it did
DrvCall(call) ==
    /\ drv_i < MaxCalls
    /\ drv_i' = drv_i + 1
    /\ \E c \in {call} :
          /\ drvpc' = c.op
          /\ drv_ret' = c.ret
          /\ CS' = LineAfter(CS, c.cs)
          /\ trace' = <<[op |-> c.op, ret |-> c.ret, cs |-> c.cs,
                          passes |-> LoopOf(c).n, last |-> LoopOf(c).last]>>
    /\ UNCHANGED <<retry_count, response, boot_log, bus_log>>
    /\ UNCHANGED <<test_sector, test_buffer, read_buffer, medium>>
    /\ UNCHANGED <<capVars, sdVars, clkVars>>

\* how the card answers the operating-condition commands, when the data
\* token comes, and what follows it
InitCourses ==
    [d0 : {[idle |-> 0, junk |-> <<>>, byte |-> b] : b \in {MMC_R1_IDLE_STATE, MMC_R1_RESPONSE}},
     busy : {0, 1, MMC_INIT_TIMEOUT - 2, MMC_INIT_TIMEOUT - 1, MMC_INIT_TIMEOUT},
     then : InitAnswers \ {[idle |-> 0, junk |-> <<>>, byte |-> MMC_R1_IDLE_STATE]},
     d16 : {[idle |-> 0, junk |-> <<>>, byte |-> b] : b \in {MMC_R1_RESPONSE, 5}}]
TokenCourses ==
    {[delay |-> 0, token |-> MMC_START_DATA_BLOCK_TOKEN],
     [delay |-> MMC_TOKEN_TIMEOUT, token |-> MMC_START_DATA_BLOCK_TOKEN],
     [delay |-> MMC_TOKEN_TIMEOUT + 1, token |-> MMC_START_DATA_BLOCK_TOKEN],
     [delay |-> 0, token |-> 9]}
RegisterData == [i \in 1..18 |-> (7 * i) % 256]

\* the chip-select pin is an input until spi_init: its level is not known
InitSelect ==
    /\ InitCommon
    /\ mainpc = "idle" /\ GIE = FALSE /\ muon_count = 0 /\ sd_initialized = 0
    /\ retry_count = 0 /\ drvpc = "off" /\ drv_i = 0 /\ response = 0
    /\ drv_ret = 0 /\ boot_log = NoBoot /\ bus_log = NoBus
    /\ CS \in {"high", "low"}

NextSelect ==
    \/ \E c \in InitCourses : DrvCall(mmc_init(c))
    \/ \E d \in Answers : DrvCall(mmc_go_idle(d))
    \/ \E d \in Answers : DrvCall(mmc_set_block_length(U32(0, MMC_BLOCK_SIZE), d))
    \/ \E d \in BlockAnswers : \E t \in TokenCourses :
          DrvCall(mmc_read_block(U32(0, 0), Zeros, [d |-> d, t |-> t],
                                 CardData(<<>>, <<0, 0, 0, 0, 0, 0>>)))
    \/ \E d \in BlockAnswers : \E dr \in {5, 229, 11} : \E nb \in {0, 998, 999} :
          DrvCall(mmc_write_block(U32(0, 0), Zeros, [d |-> d, dr |-> dr, nb |-> nb]))
    \/ \E d \in BlockAnswers : \E t \in TokenCourses : \E length \in {0, 16} :
          DrvCall(mmc_read_register(MMC_READ_CSD, length, [d |-> d, t |-> t],
                                    RegisterData))

SpecSelect == InitSelect /\ [][NextSelect]_vars

----------------------------------------------------------------------------
(* Properties of the FR2355 capture pipeline (Spec) *)

HandlerReturned == isrpc \in {"exit", "idle"}
Last(log) == log[Len(log)]
SuccessesBefore(log, k) ==
    Cardinality({j \in 1..(k - 1) : log[j].ret = MMC_SUCCESS})

\* C1: starting from an empty event buffer, the first MAX_READINGS - 1 capture
\* interrupts call write_readings_to_sd not at all, the MAX_READINGS-th calls
\* it once and returns with reading_count = 0, and the (MAX_READINGS + 1)-th
\* stores its record at index 0 after that flush has returned: one call in
\* all, and reading_count = 1.
C1_OneFlushBeforeNextRecord ==
    /\ isr_count < MAX_READINGS => wrs_calls = 0 /\ flush_calls = 0
    /\ isr_count = MAX_READINGS =>
          /\ wrs_calls = 1
          /\ HandlerReturned => reading_count = 0 /\ flush_calls >= 1
    /\ isr_count = MAX_READINGS + 1 =>
          /\ wrs_calls = 1
          /\ HandlerReturned
          /\ reading_count = 1
          /\ captured[0] = MAX_READINGS + 1
          /\ flush_calls >= 1

C1_Witness ==
    isr_count = MAX_READINGS + 1 /\ isrpc = "idle" /\ reading_count = 1

\* C2: reading_count never exceeds MAX_READINGS, no store of save_reading
\* goes past the end of readings[], and entries [0, reading_count) hold the
\* records of distinct handler invocations in the order of those invocations,
\* each with the muon_count of its invocation.
C2_EventBufferInvariant ==
    /\ reading_count <= MAX_READINGS
    /\ ~oob_store
    /\ \A i \in ReadingIndex : i < reading_count =>
          /\ captured[i] >= 1 /\ captured[i] <= isr_count
          /\ readings[i].energy_band \in Bands
          /\ \A j \in ReadingIndex : (i < j /\ j < reading_count) =>
                captured[i] < captured[j]

C2_Witness ==
    reading_count = MAX_READINGS /\ captured[MAX_READINGS - 1] = MAX_READINGS
      /\ Len(write_log) > 0

\* C4: current_sector is the number of mmc_write_sector calls so far that
\* returned MMC_SUCCESS (0 at the start), each call was made with the cursor
\* value of that moment, and a flush_buffer_to_sd call moved the cursor by
\* one if its write succeeded and not at all if the write failed or
\* sd_initialized was 0.
C4_CursorCountsSuccessfulWrites ==
    /\ current_sector = SuccessesBefore(write_log, Len(write_log) + 1)
    /\ \A k \in 1..Len(write_log) :
          write_log[k].sector = SuccessesBefore(write_log, k)
    /\ flush_calls > 0 =>
          /\ last_flush.ncalls \in {0, 1}
          /\ last_flush.sdinit = 0 => last_flush.ncalls = 0
          /\ last_flush.after =
               IF last_flush.ncalls = 1 /\ last_flush.ret = MMC_SUCCESS
               THEN last_flush.before + 1 ELSE last_flush.before

C4_Witness ==
    /\ Len(write_log) = 2
    /\ write_log[1].ret = MMC_TIMEOUT_ERROR
    /\ write_log[2].ret = MMC_SUCCESS
    /\ current_sector = 1

\* C9: a step in which mmc_write_sector fails leaves sd_initialized at 1, and
\* the flush_buffer_to_sd call that follows a failed write calls
\* mmc_write_sector again.
C9_FailedWriteKeepsSession ==
    [][ /\ (Len(write_log') > Len(write_log) /\ Last(write_log').ret # MMC_SUCCESS)
            => (sd_initialized = 1 /\ sd_initialized' = 1)
        /\ (flush_calls' > flush_calls /\ buffer_position > 0
              /\ Len(write_log) > 0 /\ Last(write_log).ret # MMC_SUCCESS)
            => Len(write_log') = Len(write_log) + 1 ]_vars

C9_Witness ==
    /\ Len(write_log) = 2
    /\ write_log[1].ret # MMC_SUCCESS
    /\ sd_initialized = 1

\* C10: a flush_buffer_to_sd call made while sd_initialized is 0 (with data
\* in the buffer) calls mmc_write_sector not at all, leaves current_sector
\* as it was, sets buffer_position to 0 and clears sd_buffer.
C10_FlushWithoutCard ==
    [][ (flush_calls' > flush_calls /\ sd_initialized = 0 /\ buffer_position > 0)
          => /\ write_log' = write_log
             /\ current_sector' = current_sector
             /\ buffer_position' = 0
             /\ sd_buffer' = Zeros
             /\ last_flush'.ncalls = 0 ]_vars

C10_Witness ==
    /\ flush_calls > 0
    /\ last_flush.sdinit = 0 /\ last_flush.pos_in > 0
    /\ buffer_position = 0 /\ sd_buffer = Zeros

\* C11: a flush_buffer_to_sd call makes at most one mmc_write_sector call
\* and drops the block whatever that call returned, so no block is written
\* a second time; and reading_count goes from a positive value to 0 only in
\* the step in which write_readings_to_sd returns, with every reading
\* formatted and the buffer flushed, whatever the writes returned.
C11_NoRetryResetAfterAllBlocks ==
    [][ /\ Len(write_log') <= Len(write_log) + 1
        /\ flush_calls' > flush_calls =>
              (buffer_position' = 0 /\ sd_buffer' = Zeros)
        /\ (reading_count > 0 /\ reading_count' = 0) =>
              /\ isrpc \in {"wrs", "flush_last"} /\ isrpc' = "exit"
              /\ wrs_i' = reading_count
              /\ buffer_position' = 0 ]_vars

\* write_readings_to_sd has returned after two writes, the first of which
\* failed, and the second went to the same sector with the later readings
C11_Witness ==
    /\ isrpc = "exit" /\ reading_count = 0
    /\ Len(write_log) = 2
    /\ write_log[1].ret = MMC_WRITE_ERROR
    /\ write_log[2].sector = write_log[1].sector
    /\ flush_calls = 2

----------------------------------------------------------------------------
(* Band lines and edge flags (SpecBands) *)

\* the band of each line, as the branches of ISRP2 have it (BIT1 is band 4;
\* the comments of msp_init number the lines the other way round)
BandOfLineFR2355(bit) == 5 - bit

\* the band flags the last handler invocation found set
FlagsFound == last_isr.flags \cap BandBits

Returned == isrpc = "idle" /\ last_isr.n > MAX_READINGS - 1

\* C14: when the handler found the flags of band 4 and band 1 both set,
\* the flag of band 1 is still set after it has returned (only the flag of
\* the line acted on is cleared).
C14_LoserFlagStillSet ==
    Returned =>
        \A b4, b1 \in FlagsFound :
            BandOfLineFR2355(b4) = 4 /\ BandOfLineFR2355(b1) = 1 => b1 \in P2IFG

\* the handler found the flags of band 4 and band 1, stored band 4, and is
\* about to return
C14_Witness ==
    /\ isrpc = "exit" /\ last_isr.n > MAX_READINGS - 1
    /\ last_isr.band = 4
    /\ \E b1 \in FlagsFound : BandOfLineFR2355(b1) = 1 /\ b1 \in P2IFG

\* C15: the flags latched while the handler ran (those set now that the
\* handler did not find set at its entry) are still set in the state the
\* handler returns to.
C15_LatchedEdgeKept ==
    [][ isrpc = "exit" /\ isrpc' = "idle" =>
           (P2IFG \ last_isr.flags) \subseteq P2IFG' ]_vars

\* the handler has flushed and is about to return, and a flag it did not
\* find at its entry has been latched since
C15_Witness ==
    /\ isrpc = "exit" /\ last_isr.n > MAX_READINGS - 1
    /\ last_isr.flushed /\ flush_calls > 0
    /\ (P2IFG \cap BandBits) \ last_isr.flags # {}

----------------------------------------------------------------------------
(* The clock and the capture handler (SpecTick) *)

\* the six timestamp fields of the record r are those of the clock state clk
SameStamp(r, clk) ==
    \A k \in 1..Len(StampFields) : r[StampFields[k]] = clk[StampFields[k]]

\* C16: the six timestamp fields of every stored record are the fields of
\* one clock state that existed, that is, of the clock after some number
\* of the ticks that have happened; no record mixes the fields of two clock
\* states, whatever the order of ticks and captures.
C16_NoTornTimestamp ==
    \A i \in ReadingIndex :
        i < reading_count =>
            \E k \in 0..ticks : SameStamp(readings[i], ClockAfter(k, rtc0))

\* two records stored with a rollover of every field between them
C16_Witness ==
    /\ reading_count = 2 /\ isrpc = "exit"
    /\ SameStamp(readings[0], rtc0)
    /\ readings[1].year # readings[0].year
    /\ readings[1].second # readings[0].second
    /\ SameStamp(readings[1], rtc)

----------------------------------------------------------------------------
(* The calendar (SpecClock) *)

\* both digits of the byte b are decimal digits
IsBcd(b) == b \in 0..255 /\ b % 16 <= 9 /\ b \div 16 <= 9

\* the fields of clk are valid BCD within their calendar bounds
ValidClock(clk) ==
    /\ IsBcd(clk.second) /\ ValOfBcd(clk.second) \in 0..59
    /\ IsBcd(clk.minute) /\ ValOfBcd(clk.minute) \in 0..59
    /\ IsBcd(clk.hour) /\ ValOfBcd(clk.hour) \in 0..23
    /\ IsBcd(clk.day) /\ ValOfBcd(clk.day) \in 1..31
    /\ IsBcd(clk.month) /\ ValOfBcd(clk.month) \in 1..12
    /\ clk.ms \in 0..990 /\ clk.ms % 10 = 0

\* C21: before and after every tick each clock field is valid BCD within
\* its calendar bounds and rtc_ms is a multiple of 10 in 0..990; a field
\* changes only in a tick in which the next-finer field rolled over (the
\* second with rtc_ms back to 0, the minute with the second back to 00, the
\* hour with the minute back to 00, the day with the hour back to 00, the
\* month with the day back to 01, the year with the month back to 01).
C21_FieldsValidAndCascade ==
    [][ /\ ValidClock(rtc) /\ ValidClock(rtc')
        /\ rtc'.second # rtc.second => rtc.ms = 990 /\ rtc'.ms = 0
        /\ rtc'.minute # rtc.minute => rtc'.second # rtc.second /\ rtc'.second = 0
        /\ rtc'.hour # rtc.hour => rtc'.minute # rtc.minute /\ rtc'.minute = 0
        /\ rtc'.day # rtc.day => rtc'.hour # rtc.hour /\ rtc'.hour = 0
        /\ rtc'.month # rtc.month => rtc'.day # rtc.day /\ rtc'.day = 1
        /\ rtc'.year # rtc.year => rtc'.month # rtc.month /\ rtc'.month = 1 ]_vars

\* a tick has carried the second from 09 to 10
C21_Witness ==
    /\ ticks > 0 /\ rtc.ms = 0
    /\ rtc0.second = BcdOf(9) /\ rtc.second = BcdOf(10)
    /\ rtc.minute = rtc0.minute

\* the step is a tick on which the hour rolls over
HourRollsOver == rtc.hour = BcdOf(23) /\ rtc'.hour = 0

\* C19: on a tick on which the hour rolls over, the day rolls to 1 and the
\* month advances exactly when the day is the last of its month in the
\* calendar (31, 30, or 28/29 for February), and otherwise the day advances
\* by one; the day never exceeds the length of its month.
C19_DayRollsAtTrueMonthEnd ==
    [][ LET m == ValOfBcd(rtc.month)
            y == ValOfBcd4(rtc.year)
            d == ValOfBcd(rtc.day)
        IN  /\ HourRollsOver =>
                  IF d = TrueDays(m, y)
                  THEN /\ rtc'.day = 1
                       /\ rtc'.month = BcdOf(IF m = 12 THEN 1 ELSE m + 1)
                  ELSE /\ rtc'.day = BcdOf(d + 1)
                       /\ rtc'.month = rtc.month
            /\ ValOfBcd(rtc'.day) <=
                  TrueDays(ValOfBcd(rtc'.month), ValOfBcd4(rtc'.year)) ]_vars

\* midnight has passed on a run that started on 30 April
C19_Witness ==
    /\ rtc0.month = BcdOf(4) /\ rtc0.day = BcdOf(30)
    /\ ticks > 0 /\ rtc.hour = 0 /\ rtc.ms = 0

\* C20: on a tick on which the hour rolls over on 28 February, the next
\* day is 29 February exactly when the year, decoded from BCD, is divisible
\* by 4 and (not divisible by 100 or divisible by 400): in 2024 and 2028,
\* and not in 2023, 2025 and 2100; otherwise, and after 29 February, it is
\* 1 March.
C20_FebruaryLength ==
    [][ LET y    == ValOfBcd4(rtc.year)
            leap == y % 4 = 0 /\ (y % 100 # 0 \/ y % 400 = 0)
            mar1 == rtc'.day = 1 /\ rtc'.month = BcdOf(3)
            feb29 == rtc'.day = BcdOf(29) /\ rtc'.month = BcdOf(2)
        IN  HourRollsOver /\ rtc.month = BcdOf(2) =>
               /\ rtc.day = BcdOf(28) => (IF leap THEN feb29 ELSE mar1)
               /\ rtc.day = BcdOf(28) /\ y \in {2024, 2028} => feb29
               /\ rtc.day = BcdOf(28) /\ y \in {2023, 2025, 2100} => mar1
               /\ rtc.day = BcdOf(29) => mar1
               /\ rtc'.year = rtc.year ]_vars

\* 28 February 2100 has been followed by 1 March
C20_Witness ==
    /\ rtc0.year = BcdOf4(2100) /\ rtc0.month = BcdOf(2) /\ rtc0.day = BcdOf(28)
    /\ rtc.month = BcdOf(3) /\ rtc.day = 1 /\ rtc.hour = 0
    /\ ticks > 0

\* the calendar state one day after clk
DayAfter(clk) ==
    LET y == ValOfBcd4(clk.year)
        m == ValOfBcd(clk.month)
        d == ValOfBcd(clk.day)
    IN  IF d < TrueDays(m, y) THEN [clk EXCEPT !.day = BcdOf(d + 1)]
        ELSE IF m < 12 THEN [clk EXCEPT !.day = 1, !.month = BcdOf(m + 1)]
        ELSE [clk EXCEPT !.day = 1, !.month = 1, !.year = BcdOf4(y + 1)]

\* C18: after 8,640,000 ticks the clock shows the day after the one it
\* started on, by the calendar, at the same hour, minute, second and
\* sub-second count.
C18_OneDayLater == ticks = 8640000 => rtc = DayAfter(rtc0)

\* a day of ticks has passed on the run that started on 29 March
C18_Witness ==
    /\ ticks = TicksPerDay
    /\ rtc0.month = BcdOf(3) /\ rtc0.day = BcdOf(29)
    /\ rtc.hour = rtc0.hour /\ rtc.ms = rtc0.ms

----------------------------------------------------------------------------
(* The end-to-end scenario (SpecScenario) *)

\* the bytes of "1,1,2025-10-14,12:00:00,23\n"
FirstLineExpected ==
    <<49, 44, 49, 44, 50, 48, 50, 53, 45, 49, 48, 45, 49, 52, 44,
      49, 50, 58, 48, 48, 58, 48, 48, 44, 50, 51, 10>>

\* the step hands a block to mmc_write_sector
WritesBlock == Len(write_log') = Len(write_log) + 1

\* C22: with the card initialised, the first block is handed to
\* mmc_write_sector in the handler of the 16th capture, it is the only one
\* up to there, and it begins with the line "1,1,2025-10-14,12:00:00,23\n".
C22_FirstBlockStartsWithFirstRecord ==
    [][ WritesBlock /\ Len(write_log) = 0 =>
           /\ isr_count = MAX_READINGS
           /\ Len(sd_buffer) >= Len(FirstLineExpected)
           /\ SubSeq(sd_buffer, 1, Len(FirstLineExpected)) = FirstLineExpected ]_vars

\* the handler of the 16th capture has written one block, with success
C22_Witness ==
    /\ isr_count = MAX_READINGS /\ isrpc = "exit"
    /\ Len(write_log) = 1 /\ write_log[1].ret = MMC_SUCCESS
    /\ write_log[1].sector = 0 /\ current_sector = 1

----------------------------------------------------------------------------
(* The blocks handed to the card (Spec) *)

\* the lines of readings a..b of the array rd, one after the other
RECURSIVE LinesOf(_, _, _)
LinesOf(a, b, rd) ==
    IF a > b THEN <<>> ELSE CsvLine(rd[a]) \o LinesOf(a + 1, b, rd)

\* the block flush_buffer_to_sd hands to mmc_write_sector in this state
\* (without its trailing zero bytes)
BlockHanded ==
    LET st0 == SdState(sd_buffer, buffer_position, current_sector, sd_initialized)
        w   == flush_buffer_to_sd(st0, MMC_SUCCESS).writes
    IN  w[Len(w)].block

----------------------------------------------------------------------------
(* Reading a line back (SpecCsv) *)

IsNumber(s) == Len(s) > 0 /\ \A k \in 1..Len(s) : IsDigit(s[k])

\* the value of a string of digits in base b
RECURSIVE DigitsVal(_, _)
DigitsVal(s, b) ==
    IF Len(s) = 0 THEN 0
    ELSE DigitsVal(SubSeq(s, 1, Len(s) - 1), b) * b + (s[Len(s)] - Chr0)

\* the fields of s between the separators sep
RECURSIVE SplitOn(_, _)
SplitOn(s, sep) ==
    IF \E k \in 1..Len(s) : s[k] = sep
    THEN LET k == CHOOSE k \in 1..Len(s) :
                     s[k] = sep /\ \A j \in 1..(k - 1) : s[j] # sep
         IN  <<SubSeq(s, 1, k - 1)>> \o SplitOn(SubSeq(s, k + 1, Len(s)), sep)
    ELSE <<s>>

\* a decimal number with an optional minus sign
IsSigned(s) ==
    /\ Len(s) > 0
    /\ IF s[1] = ChrMinus THEN IsNumber(SubSeq(s, 2, Len(s))) ELSE IsNumber(s)
SignedVal(s) ==
    IF s[1] = ChrMinus THEN 0 - DigitsVal(SubSeq(s, 2, Len(s)), 10)
    ELSE DigitsVal(s, 10)

\* the field values read from one line "n,band,YYYY-MM-DD,HH:MM:SS,temp\n",
\* the date and time digits taken as BCD; <<>> if the line is not of that form
ParseCsvLine(line) ==
    IF Len(line) = 0 \/ line[Len(line)] # ChrNL THEN <<>>
    ELSE
      LET f == SplitOn(SubSeq(line, 1, Len(line) - 1), ChrComma)
      IN  IF Len(f) # 5 THEN <<>>
          ELSE
            LET d == SplitOn(f[3], ChrDash)
                t == SplitOn(f[4], ChrColon)
            IN  IF /\ IsNumber(f[1]) /\ IsNumber(f[2]) /\ IsSigned(f[5])
                   /\ Len(d) = 3 /\ Len(t) = 3
                   /\ \A k \in 1..3 : IsNumber(d[k]) /\ IsNumber(t[k])
                   /\ Len(d[1]) = 4
                   /\ \A k \in 2..3 : Len(d[k]) = 2
                   /\ \A k \in 1..3 : Len(t[k]) = 2
                THEN <<DigitsVal(f[1], 10), DigitsVal(f[2], 10),
                       DigitsVal(d[1], 16), DigitsVal(d[2], 16), DigitsVal(d[3], 16),
                       DigitsVal(t[1], 16), DigitsVal(t[2], 16), DigitsVal(t[3], 16),
                       SignedVal(f[5])>>
                ELSE <<>>

FieldsOf(r) ==
    <<r.muon_number, r.energy_band, r.year, r.month, r.day,
      r.hour, r.minute, r.second, r.temperature>>

\* the lines in sd_buffer, each without its newline
LinesInBuffer ==
    LET f == SplitOn(SubSeq(sd_buffer, 1, buffer_position), ChrNL)
    IN  SubSeq(f, 1, Len(f) - 1)

\* write_readings_to_sd has built the lines of the first readings and is
\* about to hand them to flush_buffer_to_sd for the first time
LinesWritten ==
    /\ isrpc \in {"flush_in_loop", "flush_last"} /\ flush_calls = 0
    /\ buffer_position > 0

\* C24: for every record (sequence number 0..65535, band 1..4, a valid BCD
\* timestamp, any 16-bit signed measurement), the line write_readings_to_sd
\* builds reads back to the field values of the record.
C24_LineParsesBack ==
    LinesWritten =>
        \A k \in 1..Len(LinesInBuffer) :
            ParseCsvLine(LinesInBuffer[k] \o <<ChrNL>>) = FieldsOf(readings[k - 1])

\* the line of a record whose measurement is -32768 has been built
C24_Witness ==
    /\ LinesWritten
    /\ readings[0].temperature = -32768
    /\ readings[0].muon_number = 65535
    /\ Len(LinesInBuffer) > 1

\* the lines of all other records read back
OtherLinesParseBack ==
    LinesWritten =>
        \A k \in 1..Len(LinesInBuffer) :
            readings[k - 1].temperature # -32768 =>
               ParseCsvLine(LinesInBuffer[k] \o <<ChrNL>>) = FieldsOf(readings[k - 1])

----------------------------------------------------------------------------
(* The block driver against a card (SpecTest, SpecWrite) *)

\* the card sends the ready response and the data token of a read within
\* the driver's poll bounds
ReadAnswered(call) ==
    /\ call.d.byte = MMC_R1_RESPONSE /\ call.d.junk = <<>>
    /\ call.d.idle <= MMC_RESPONSE_TIMEOUT
    /\ "t" \in DOMAIN call
    /\ call.t.token = MMC_START_DATA_BLOCK_TOKEN
    /\ call.t.delay <= MMC_TOKEN_TIMEOUT

\* C25: against a card that keeps the blocks it accepts (and answers the
\* read within the poll bounds), for any sector and any 512-byte payload, a
\* mmc_write_sector that returned MMC_SUCCESS followed by a mmc_read_sector
\* of the same sector returns MMC_SUCCESS and the bytes that were written.
C25_ReadBackWhatWasWritten ==
    Len(trace) = 3 /\ trace[2].ret = MMC_SUCCESS /\ ReadAnswered(trace[3]) =>
        /\ trace[3].ret = MMC_SUCCESS
        /\ read_buffer = test_buffer

\* a block written to a sector beyond 2^23 was read back, the card having
\* answered each command with the last permitted poll
C25_Witness ==
    /\ Len(trace) = 3
    /\ trace[2].ret = MMC_SUCCESS /\ trace[3].ret = MMC_SUCCESS
    /\ test_sector = 8388618 /\ test_buffer = TestPattern
    /\ trace[3].d.idle = MMC_RESPONSE_TIMEOUT
    /\ trace[3].t.delay = MMC_TOKEN_TIMEOUT
    /\ read_buffer = test_buffer

\* C26: for every block index s with s * 512 < 2^32, also s > 65535, the
\* four argument bytes of a sector read or write are the big-endian bytes of
\* s * 512, that is s / 2^15, (s / 2^7) mod 256, 2 s mod 256 and 0.
C26_AddressBytesNotTruncated ==
    \A k \in 1..Len(trace) :
        trace[k].op \in {"read", "write"} /\ test_sector < 8388608 =>
            SubSeq(trace[k].frame, 2, 5) =
                <<test_sector \div 32768, (test_sector \div 128) % 256,
                  (2 * test_sector) % 256, 0>>

\* sector 65546 has been written and read
C26_Witness ==
    /\ Len(trace) = 3 /\ test_sector = 65546
    /\ trace[2].op = "write" /\ trace[3].op = "read"
    /\ trace[2].frame[2] = 2

\* the byte the card sends first after its idle bytes, and its place
FirstNonIdle(d) == ByteAt(d, d.idle + 1)

\* C29: mmc_get_response discards idle-fill bytes only and returns the
\* first other byte the card sends, and it gives up after
\* MMC_RESPONSE_TIMEOUT + 1 exchanges if only idle-fill bytes arrive.
C29_ReturnsFirstNonIdleByte ==
    \A k \in 1..Len(trace) :
        LET call == trace[k]
        IN  /\ call.polls <= MMC_RESPONSE_TIMEOUT + 1
            /\ IF call.d.idle + 1 <= MMC_RESPONSE_TIMEOUT + 1
                  /\ FirstNonIdle(call.d) # IDLE_FILL
               THEN call.r1 = FirstNonIdle(call.d) /\ call.polls = call.d.idle + 1
               ELSE call.r1 = IDLE_FILL /\ call.polls = MMC_RESPONSE_TIMEOUT + 1

\* the card has answered the reset command with 0x05 and idle bytes
C29_Witness ==
    /\ Len(trace) = 1
    /\ trace[1].d = [idle |-> 0, junk |-> <<5>>, byte |-> IDLE_FILL]
    /\ trace[1].r1 = IDLE_FILL

\* C30: mmc_send_cmd emits six bytes: the opcode with the 0x40 bit set,
\* the argument bits 31..24, 23..16, 15..8, 7..0, then the checksum given
\* by the caller; the reset command goes out with checksum 0x95.
C30_SixByteFrame ==
    \A k \in 1..Len(trace) :
        LET call == trace[k]
            f    == call.frame
        IN  /\ Len(f) = 6
            /\ \A j \in 1..6 : f[j] \in 0..255
            /\ f[1] = (CASE call.op = "go_idle" -> 64
                         [] call.op = "read"    -> 64 + 17
                         [] call.op = "write"   -> 64 + 24)
            /\ f[2] * 256 + f[3] = call.arg.hi
            /\ f[4] * 256 + f[5] = call.arg.lo
            /\ f[6] = IF call.op = "go_idle" THEN 149 ELSE 255

\* the reset command, a write and a read of the last sector below 2^23
\* (byte address 0xFFFFFE00) have been sent
C30_Witness ==
    /\ Len(trace) = 3 /\ test_sector = 8388607
    /\ trace[1].frame = <<64, 0, 0, 0, 0, 149>>
    /\ trace[2].frame = <<88, 255, 255, 254, 0, 255>>
    /\ trace[3].frame = <<81, 255, 255, 254, 0, 255>>

\* the step is the call of mmc_read_sector
ReadCall == Len(trace) = 2 /\ Len(trace') = 3

\* C28: mmc_read_block returns MMC_RESPONSE_ERROR when the command is not
\* answered with ready, the different code MMC_DATA_TOKEN_ERROR when the
\* token 0xFE does not come within the token poll, and otherwise shifts in
\* the 512 bytes of the block and the two checksum bytes, which it drops,
\* and returns MMC_SUCCESS; on either error the caller's buffer is as before.
C28_ReadBlockErrors ==
    [][ ReadCall =>
          LET call == trace'[3]
          IN  /\ MMC_RESPONSE_ERROR # MMC_DATA_TOKEN_ERROR
              /\ IF call.r1 # MMC_R1_RESPONSE
                 THEN call.ret = MMC_RESPONSE_ERROR /\ read_buffer' = read_buffer
                 ELSE IF call.t.token # MMC_START_DATA_BLOCK_TOKEN
                         \/ call.t.delay > MMC_TOKEN_TIMEOUT
                 THEN /\ call.ret = MMC_DATA_TOKEN_ERROR
                      /\ call.token_polls = MMC_TOKEN_TIMEOUT + 1
                      /\ read_buffer' = read_buffer
                 ELSE /\ call.ret = MMC_SUCCESS
                      /\ call.exchanges = MMC_BLOCK_SIZE + 2
                      /\ read_buffer' = CardHolds(medium, call.arg)
                      /\ call.discarded = CardCrc ]_vars

\* the token did not come within the poll and the read returned the token
\* error, leaving read_buffer as it was
C28_Witness ==
    /\ Len(trace) = 3
    /\ trace[3].ret = MMC_DATA_TOKEN_ERROR
    /\ trace[3].t.delay = MMC_TOKEN_TIMEOUT + 1
    /\ read_buffer = BlockBytes(<<1, 2, 3>>)

\* the step in which mmc_write_block returns, and the one in which it
\* starts its busy poll
WbReturns  == drvpc' = "fl_ret" /\ drvpc \in {"wb_cmd", "wb_data", "wb_busy"}
WbPollsBusy == drvpc' = "wb_busy" /\ drvpc # "wb_busy"

\* C27: mmc_write_block returns MMC_SUCCESS only if the command was
\* answered with ready, the data response had its low five bits equal to
\* 0x05 and the busy poll saw a non-zero byte within its bound; a rejected
\* data response gives MMC_WRITE_ERROR, an exhausted busy poll
\* MMC_TIMEOUT_ERROR, and the two codes and MMC_RESPONSE_ERROR are distinct.
C27_WriteBlockResults ==
    [][ /\ WbPollsBusy =>
              /\ drvpc = "wb_data"
              /\ bus_log.r1 = MMC_R1_RESPONSE
              /\ response' % 32 = 5
        /\ WbReturns =>
              /\ drv_ret' = MMC_SUCCESS =>
                    /\ drvpc = "wb_busy"
                    /\ bus_log.r1 = MMC_R1_RESPONSE
                    /\ response' # 0
                    /\ drv_i + 1 < MMC_BUSY_TIMEOUT
              /\ drvpc = "wb_data" =>
                    response' % 32 # 5 /\ drv_ret' = MMC_WRITE_ERROR
              /\ drvpc = "wb_busy" /\ drv_i + 1 >= MMC_BUSY_TIMEOUT =>
                    drv_ret' = MMC_TIMEOUT_ERROR
              /\ Cardinality({MMC_WRITE_ERROR, MMC_TIMEOUT_ERROR,
                              MMC_RESPONSE_ERROR, MMC_SUCCESS}) = 4 ]_vars

\* a write has returned MMC_TIMEOUT_ERROR after its last busy poll
C27_Witness ==
    /\ drvpc = "fl_ret" /\ drv_ret = MMC_TIMEOUT_ERROR
    /\ bus_log.tokens = 1 /\ bus_log.r1 = MMC_R1_RESPONSE
    /\ response = 0

----------------------------------------------------------------------------
(* The serialization buffer stays in bounds (SpecFill) *)

\* write_readings_to_sd stands at a call of flush_buffer_to_sd
AtFlushCall == isrpc \in {"flush_in_loop", "flush_last"}

\* C31: buffer_position never exceeds SD_BUFFER_SIZE and no store of
\* write_readings_to_sd into sd_buffer uses an index of SD_BUFFER_SIZE or
\* more, whatever the records hold (sequence numbers up to 65535,
\* measurements down to -32768) and also when the buffer holds the header
\* line at the start; what is stored is never longer than the array.
C31_BufferStaysInBounds ==
    /\ buffer_position <= SD_BUFFER_SIZE
    /\ ~oob_buf
    /\ Len(sd_buffer) <= buffer_position
    /\ AtFlushCall => buffer_position > 0

\* the loop has reached its flush test with the header line and lines of
\* records with six-character measurements in the buffer, the first of them
\* the line of the measurement -32768
C31_Witness ==
    /\ isrpc = "flush_in_loop"
    /\ buffer_position >= SD_BUFFER_SIZE - FLUSH_MARGIN
    /\ SubSeq(sd_buffer, 1, Len(HeaderFR2355)) = HeaderFR2355
    /\ readings[0].temperature = -32768
    /\ readings[1].temperature = -32767

----------------------------------------------------------------------------
(* The order of the records (SpecOrder) *)

RECURSIVE Flatten(_)
Flatten(ss) == IF Len(ss) = 0 THEN <<>> ELSE ss[1] \o Flatten(SubSeq(ss, 2, Len(ss)))

\* the sequence numbers of the record lines handed to mmc_write_sector so far
NumbersHanded == Flatten([k \in 1..Len(write_log) |-> write_log[k].numbers])

\* those of the lines in sd_buffer
NumbersPending == NumbersIn(SubSeq(sd_buffer, 1, buffer_position))

\* those of the records in the event buffer that write_readings_to_sd has not
\* serialized
NumbersWaiting ==
    LET w == IF isrpc \in {"wrs", "flush_in_loop", "flush_last"} THEN wrs_i ELSE 0
    IN  [j \in 1..(reading_count - w) |-> readings[w + j - 1].muon_number]

\* the records captured so far, those of InitOrder included
RecordsSoFar == isr_count + MAX_READINGS - 1

\* C32: with the card initialised, the record lines handed to the block
\* writes, then the lines in sd_buffer, then the records still in the event
\* buffer are the captured records in capture order, each once: their
\* sequence numbers are consecutive (modulo 2^16) up to muon_count - 1,
\* through any number of calls of write_readings_to_sd and whatever the
\* writes return.
C32_RecordsInCaptureOrder ==
    LET all == NumbersHanded \o NumbersPending \o NumbersWaiting
    IN  /\ Len(all) = RecordsSoFar
        /\ \A j \in 1..Len(all) :
              all[j] = Wrap16(muon_count + 65536 - RecordsSoFar + j - 1)
        /\ \A i \in ReadingIndex : i < reading_count =>
              readings[i].muon_number =
                 Wrap16(muon_count + 65536 - isr_count + captured[i] - 1)

\* write_readings_to_sd has run twice and handed four blocks to the card,
\* the first write failed, the last block holds the record numbered 0
C32_Witness ==
    /\ wrs_calls = 2 /\ isrpc = "idle"
    /\ Len(write_log) = 4
    /\ write_log[1].ret # MMC_SUCCESS
    /\ write_log[4].numbers = <<0>>
    /\ reading_count = 1

----------------------------------------------------------------------------
(* The sectors of the blocks written (SpecOrder) *)

Succeeded(w) == w.ret = MMC_SUCCESS

----------------------------------------------------------------------------
(* Sequence numbers and handler invocations (SpecPort) *)

\* the sequence numbers of all records, oldest first
NumbersSoFar == NumbersHanded \o NumbersPending \o NumbersWaiting

----------------------------------------------------------------------------
(* One context on the bus (SpecSDCard) *)

\* main is between the call and the return of its sd_card_init
MainInSdCardInit == mainpc = "in_sd_card_init"

\* the step is the port handler's write_readings_to_sd calling sd_card_init
\* (and with it mmc_ping and mmc_init)
HandlerStartsInit ==
    isrpc = "wrs_init" /\ sd_initialized = 0 /\ isrpc' # "wrs_init"

\* the step is a flush_buffer_to_sd call of the port handler, which calls
\* mmc_write_sector
HandlerWritesBlock == Len(write_log') > Len(write_log)

\* C33, as claimed: in the SDCardTIGR prototype, while main is inside
\* sd_card_init the port handler starts neither sd_card_init (mmc_init) nor
\* a block write, and sd_initialized is not written by the handler.
C33_OneContextOnTheBus ==
    [][ MainInSdCardInit =>
          /\ ~HandlerStartsInit
          /\ ~HandlerWritesBlock
          /\ isrpc # "idle" => sd_initialized' = sd_initialized ]_vars

\* main is inside sd_card_init, and the port handler, entered with the array
\* full, has run its own sd_card_init, set sd_initialized and written a block
C33_Witness ==
    /\ MainInSdCardInit
    /\ isrpc = "exit" /\ last_isr.flushed
    /\ sd_initialized = 1
    /\ Len(write_log) > 0

----------------------------------------------------------------------------
(* The chip-select line (SpecSelect) *)

\* C34: each of mmc_init, mmc_go_idle, mmc_set_block_length, mmc_read_block,
\* mmc_write_block and mmc_read_register returns with the chip-select line
\* high, whatever it returns and whatever the line's level was at the call;
\* apart from mmc_init each of them has driven the line low before.
C34_ReturnsWithCardDeselected ==
    Len(trace) > 0 =>
        /\ CS = "high"
        /\ trace[1].op \in {"init", "go_idle", "set_block_length", "read",
                            "write", "read_register"}
        /\ "low" \in {trace[1].cs[k] : k \in 1..Len(trace[1].cs)}

\* mmc_read_register has returned the data token error to
\* its caller, as the last of MaxCalls calls
C34_Witness ==
    /\ Len(trace) > 0
    /\ trace[1].op = "read_register" /\ trace[1].ret = MMC_DATA_TOKEN_ERROR
    /\ drv_i = MaxCalls
    /\ CS = "high"

----------------------------------------------------------------------------
\* C35: if the card answers an operating-condition command with ready
\* (0x00) on any attempt up to and including the MMC_INIT_TIMEOUT-th,
\* mmc_init does not return MMC_TIMEOUT_ERROR; and if the card stops
\* signalling busy on any poll up to and including the MMC_BUSY_TIMEOUT-th,
\* mmc_check_busy (whose result mmc_write_block returns) gives MMC_SUCCESS.
C35_LastAttemptCounts ==
    Len(trace) > 0 =>
        LET call == trace[1]
        IN  /\ (/\ call.op = "init"
                /\ call.passes \in 1..MMC_INIT_TIMEOUT
                /\ call.last = MMC_R1_RESPONSE)
               => call.ret # MMC_TIMEOUT_ERROR
            /\ (/\ call.op = "write"
                /\ call.passes \in 1..MMC_BUSY_TIMEOUT
                /\ call.last # 0)
               => call.ret = MMC_SUCCESS

\* the card was ready on the last attempt mmc_init makes, and mmc_init
\* has returned the timeout
C35_Witness ==
    /\ Len(trace) > 0
    /\ trace[1].op = "init"
    /\ trace[1].passes = MMC_INIT_TIMEOUT
    /\ trace[1].last = MMC_R1_RESPONSE
    /\ trace[1].ret = MMC_TIMEOUT_ERROR

----------------------------------------------------------------------------
(* The reference clock (SpecRef) *)

\* C39, as claimed: RTCHOUR stays in 0..23, and the tick of T1A0ISR that
\* increments RTCDAY is the one that takes the clock from 23:59:59.999 to
\* 00:00:00.000: RTCHOUR is 0 after it, so that the next increment of RTCDAY
\* is a whole day of 86,400,000 ticks away.
C39_DayRollsHourToZero ==
    /\ [](rtc.RTCHOUR \in 0..23)
    /\ [][rtc'.RTCDAY # rtc.RTCDAY =>
            /\ rtc'.RTCDAY = rtc.RTCDAY + 1
            /\ rtc.RTCHOUR = 23 /\ rtc.RTCMIN = 59 /\ rtc.RTCSEC = 59
            /\ rtc'.RTCHOUR = 0 /\ rtc'.RTCMIN = 0 /\ rtc'.RTCSEC = 0
            /\ rtc'.ms = 0]_vars

\* the first midnight has passed: RTCDAY is 1 and the clock shows 23:00:00
C39_Witness ==
    /\ ticks > 0
    /\ rtc0.RTCDAY = 0 /\ rtc.RTCDAY = 1
    /\ rtc.RTCHOUR = 23 /\ rtc.RTCMIN = 0 /\ rtc.RTCSEC = 0 /\ rtc.ms = 0

----------------------------------------------------------------------------
(* Termination (SpecLive) *)

\* sd_card_init has not returned, or a capture handler or a flush is
\* under way
Running ==
    \/ InBoot /\ mainpc # "done"
    \/ isrpc # "idle"
    \/ drvpc # "off"

\* C12: whatever the card answers and whatever the detect line reads, the
\* loops of sd_card_init, mmc_init and the driver stay within their limits
\* (presence polls, mmc_init attempts, CMD1 and busy polls, response polls),
\* sd_card_init returns, every entered capture handler returns, and every
\* started flush returns.
C12_NoStuckState ==
    /\ [](/\ retry_count <= PING_WAIT_LIMIT
          /\ boot_log.inits <= INIT_RETRIES + 1
          /\ drv_i < MMC_INIT_TIMEOUT /\ drv_i < MMC_BUSY_TIMEOUT
          /\ bus_log.polls <= MMC_RESPONSE_TIMEOUT + 1)
    /\ Running ~> ~Running

\* sd_card_init has returned with the card seen absent, then present, and
\* four mmc_init calls that all failed
C12_Witness ==
    /\ mainpc = "done" /\ sd_initialized = 0
    /\ boot_log.inits = INIT_RETRIES + 1 /\ ~boot_log.init_ok
    /\ boot_log.absent_seen /\ boot_log.present_seen

\* C17: once interrupts are enabled, a step of main leaves sd_buffer,
\* buffer_position and the event buffer as they are.
C17_MainLeavesBuffersAlone ==
    [][ GIE /\ mainpc' # mainpc =>
           UNCHANGED <<sd_buffer, buffer_position, readings, reading_count>> ]_vars

\* interrupts are enabled, a capture has been handled, and main is about to
\* copy the header into sd_buffer
C17_Witness ==
    /\ GIE /\ mainpc = "header" /\ isrpc = "idle"
    /\ isr_count > 0 /\ reading_count > 0

----------------------------------------------------------------------------
(* Properties of the SDCardTIGR prototype (SpecSDCard) *)

\* C3, as claimed: when the port handler calls save_reading with
\* reading_count = MAX_READINGS, the buffer is flushed and the record of
\* that capture event is then stored: on return the event buffer holds the
\* event's band and timestamp at index 0 and reading_count = 1.
C3_RecordAcceptedAtCapacity ==
    (isrpc = "idle" /\ last_isr.n > 0 /\ last_isr.band # 0
        /\ last_isr.count_in = MAX_READINGS) =>
        /\ reading_count = 1
        /\ captured[0] = last_isr.n
        /\ readings[0].energy_band = last_isr.band
        /\ readings[0].hour = rtc.hour /\ readings[0].day = rtc.day

\* the handler has returned from a capture taken with the array full, and no
\* slot of the event buffer holds that event
C3_Witness ==
    /\ isrpc = "idle"
    /\ last_isr.count_in = MAX_READINGS /\ last_isr.band # 0
    /\ last_isr.flushed
    /\ reading_count = 0
    /\ \A i \in ReadingIndex : captured[i] # last_isr.n

----------------------------------------------------------------------------
(* Properties of sd_card_init and mmc_init (SpecBoot) *)

\* C5, as claimed: sd_card_init calls mmc_init only after mmc_ping has
\* reported the card present; a card present at every poll from start-up is
\* taken on to mmc_init; and when no poll of the presence wait saw a card,
\* sd_card_init returns with sd_initialized = 0 and mmc_init never called.
C5_InitOnlyAfterCardPresent ==
    /\ boot_log.inits > 0 => boot_log.present_seen
    /\ (mainpc = "done" /\ ~boot_log.absent_seen) => boot_log.inits > 0
    /\ (mainpc = "done" /\ ~boot_log.present_seen) =>
           (boot_log.inits = 0 /\ sd_initialized = 0)

\* the card was present at every poll and sd_card_init gave up without mmc_init
C5_Witness ==
    /\ mainpc = "done"
    /\ boot_log.present_seen /\ ~boot_log.absent_seen
    /\ boot_log.inits = 0 /\ sd_initialized = 0

\* C6, as claimed: once sd_card_init has gone on to mmc_init, it ends with
\* sd_initialized = 1 exactly when some mmc_init attempt returned
\* MMC_SUCCESS, and with sd_initialized = 0 exactly when every attempt failed.
C6_ReadyIffAnAttemptSucceeded ==
    (mainpc = "done" /\ boot_log.inits > 0) =>
        /\ (sd_initialized = 1) <=> boot_log.init_ok
        /\ (sd_initialized = 0) <=> ~boot_log.init_ok

\* the last attempt of the retry loop succeeded and the session is marked failed
C6_Witness ==
    /\ mainpc = "done"
    /\ boot_log.inits = INIT_RETRIES + 1
    /\ boot_log.init_ok
    /\ sd_initialized = 0

\* C7, as claimed: mmc_init goes from the CMD1 loop on to the block length
\* only when the last CMD1 answer was ready (0x00); the block-length command
\* is never sent in a call in which CMD1 was not answered ready; and a call
\* that entered the CMD1 loop and never saw ready returns MMC_TIMEOUT_ERROR.
C7_BlockLengthOnlyWhenReady ==
    /\ drvpc = "mi_blocklen" => response = MMC_R1_RESPONSE
    /\ bus_log.cmd16 => bus_log.cmd1_ready
    /\ (drvpc = "ret" /\ drv_ret # MMC_INIT_ERROR /\ ~bus_log.cmd1_ready) =>
           drv_ret = MMC_TIMEOUT_ERROR

\* mmc_init reports success although CMD1 was never answered ready
C7_Witness ==
    /\ drvpc = "ret"
    /\ drv_ret = MMC_SUCCESS
    /\ bus_log.cmd16
    /\ ~bus_log.cmd1_ready

\* C36, as claimed: sd_card_init declares the card absent (returns with
\* sd_initialized = 0 and mmc_init never called) only when the presence wait
\* has used up its whole bound of PING_WAIT_LIMIT retries; a wait that
\* mmc_ping ended earlier is followed by mmc_init.
C36_AbsentOnlyAfterWholeWait ==
    (mainpc = "done" /\ boot_log.inits = 0) =>
        /\ sd_initialized = 0
        /\ retry_count = PING_WAIT_LIMIT

\* mmc_ping ended the wait after PING_ABSENT_LIMIT retries, well before the
\* bound, and sd_card_init returned without calling mmc_init
C36_Witness ==
    /\ mainpc = "done"
    /\ boot_log.inits = 0
    /\ sd_initialized = 0
    /\ retry_count = PING_ABSENT_LIMIT
    /\ boot_log.present_seen /\ boot_log.absent_seen

----------------------------------------------------------------------------
(* Properties of mmc_write_block under flush_buffer_to_sd (SpecWrite) *)

\* the flush that has just returned called mmc_write_block, and the card did
\* not answer ready (0x00) to the write command
WriteCommandRefused ==
    /\ drvpc = "off"
    /\ flush_calls > 0
    /\ last_flush.ncalls = 1
    /\ bus_log.cmd24 = 1
    /\ bus_log.r1 # MMC_R1_RESPONSE

\* C8, amended: if the card does not return ready (0x00) to the write
\* command, mmc_write_block returns MMC_RESPONSE_ERROR after at most
\* MMC_RESPONSE_TIMEOUT + 1 polls, sends no data token and no payload, and
\* the cursor does not advance.
C8_NoReadyGivesResponseError ==
    WriteCommandRefused =>
        /\ last_flush.ret = MMC_RESPONSE_ERROR
        /\ bus_log.polls <= MMC_RESPONSE_TIMEOUT + 1
        /\ bus_log.tokens = 0 /\ bus_log.data = 0
        /\ last_flush.after = last_flush.before
        /\ current_sector = last_flush.before

\* the card stayed silent for all the polls of the write command
C8_Witness ==
    /\ WriteCommandRefused
    /\ bus_log.polls = MMC_RESPONSE_TIMEOUT + 1
    /\ bus_log.r1 = IDLE_FILL
    /\ last_flush.ret = MMC_RESPONSE_ERROR
    /\ current_sector = last_flush.before

\* C8, as claimed: in that case mmc_write_block returns MMC_TIMEOUT_ERROR,
\* sends no data token or payload, and the cursor does not advance.
C8_NoReadyGivesTimeoutError ==
    WriteCommandRefused =>
        /\ last_flush.ret = MMC_TIMEOUT_ERROR
        /\ bus_log.polls <= MMC_RESPONSE_TIMEOUT + 1
        /\ bus_log.tokens = 0 /\ bus_log.data = 0
        /\ current_sector = last_flush.before

====
